---- MODULE Spec2Model ----
(***************************************************************************)
(* Model of powder/experiment.py: PowderExperiment, the controller of one  *)
(* testbed experiment, and of powder/ssh.py: SSHConnection, the session    *)
(* with one remote node (second part of the module, specification          *)
(* SshSpec).  The control plane (powder.rpc) is the environment:           *)
(* every request returns a result code and a payload chosen by \E from the *)
(* response sets below.  Text is a sequence of one-character strings, so   *)
(* strip(), startswith() and "in" are computed and not assumed.            *)
(* A response is a dict with an 'output' entry, as the client returns it,  *)
(* so no response.get() raises; json.loads and xmltodict.parse are taken   *)
(* by their results.                                                       *)
(***************************************************************************)
EXTENDS Integers, Sequences, FiniteSets, TLC

VARIABLES
    pc,             \* position of the caller's single thread
    experiment_name,\* len(self.experiment_name); -1 before construction
    status,         \* self.status
    nodes,          \* self.nodes: client_id -> Node
    _manifests,     \* self._manifests: None or the list of parsed documents
    poll_count,     \* local poll_count of start_and_wait (0 outside the call)
    call,           \* the top-level call running or last run
    ret,            \* what the last completed call returned (NoObject while running)
    raised,         \* exception that left the last call ("none" if none)
    rpcs,           \* whether any control-plane request was issued so far
    starts,         \* start requests issued by the current call
    terms,          \* terminate requests issued by the current call
    termRval,       \* result code of the current call's last terminate request
    pauses,         \* time.sleep(5) calls made by the current call
    slept,          \* seconds start_and_wait has slept so far (0 outside the call)
    refreshSaw,     \* what the status refresh of the last step saw ("none" if the
                    \* step made no refresh): "ready_nodes", "ready_empty", "other"
    readyNodes,     \* current call: a refresh saw ready and fetched >= 1 valid node
    readyEmpty,     \* current call: where a refresh saw ready and documents
                    \* holding no valid node ("none", "initial", "later")
    loopExit,       \* status with which the current call's polling loop ended
    statusResp,     \* the status response the last check_status() call received
    prevStatus,     \* self.status before the last check_status() or terminate() call
    manifestResp,   \* the manifests response the last check_status() call received
                    \* (NoRequest if it made no manifests request)
    initialStatus,  \* current_status of the current start_and_wait call: self.status
                    \* after its initial check_status()
    startRval,      \* result code of the current call's start request
    \* --- SSHConnection (powder/ssh.py) ---
    spc,            \* position of the session's caller: "idle", "open" (inside the
                    \* retry loop of open()), "ctor_failed"
    password,       \* self.password: KEYPWORD of the environment, None if unset
    ssh,            \* self.ssh: None, or the pexpect handle by its closed flag
    retry_count,    \* local retry_count of open() (0 outside the call)
    scall,          \* the session call running or last run
    sarg,           \* the inputs of that call and what the process answered
    sret,           \* what the last completed session call returned
    sraised,        \* exception class that left the last session call ("none" if none)
    connected,      \* the session is Connected: open() returned and neither a
                    \* close() nor a failed open() came after
    prevConnected,  \* whether the session was Connected when the last call began
    log,            \* what the current call did to processes, in order: spawns,
                    \* lines sent, forced terminations, sleeps, file copies
    \* init_node.py, check_hostname and initialize_node
    fn,             \* the function that runs ("none" outside init_node.py)
    ipc,            \* where it is: "entry", "constructed", "opening", "opened",
                    \* "checked", "finally", "returned"
    ssh_conn,       \* the local ssh_conn holds a session object
    exit_code,      \* the value of the return statement reached
    closes,         \* the close() calls the function has made
    exitstatus      \* ssh_conn.ssh.exitstatus as last read ("unread" before)

vars == <<pc, experiment_name, status, nodes, _manifests, poll_count, call, ret,
          raised, rpcs, starts, terms, termRval, pauses, slept, refreshSaw, readyNodes,
          readyEmpty, loopExit, statusResp, prevStatus, manifestResp, initialStatus,
          startRval>>

svars == <<spc, password, ssh, retry_count, scall, sarg, sret, sraised, connected,
           prevConnected, log>>

ivars == <<fn, ipc, ssh_conn, exit_code, closes, exitstatus>>

-----------------------------------------------------------------------------
(* Constants of the class, experiment.py lines 23-34.                      *)

EXPERIMENT_NOT_STARTED == 0
EXPERIMENT_PROVISIONING == 1
EXPERIMENT_PROVISIONED == 2
EXPERIMENT_READY == 3
EXPERIMENT_FAILED == 4
EXPERIMENT_NULL == 5
EXPERIMENT_UNKNOWN == 6

POLL_INTERVAL_S == 20
PROVISION_TIMEOUT_S == 1800
MAX_NAME_LENGTH == 16
START_PAUSE_S == 5

\* self._poll_count_max = PROVISION_TIMEOUT_S // POLL_INTERVAL_S
_poll_count_max == PROVISION_TIMEOUT_S \div POLL_INTERVAL_S

\* Result codes of powder.rpc as experiment.py uses them; RESPONSE_OTHER stands
\* for every code that is none of the three the controller names.
RESPONSE_SUCCESS == "RESPONSE_SUCCESS"
RESPONSE_BADARGS == "RESPONSE_BADARGS"
RESPONSE_ERROR == "RESPONSE_ERROR"
RESPONSE_OTHER == "RESPONSE_OTHER"
RVals == {RESPONSE_SUCCESS, RESPONSE_BADARGS, RESPONSE_ERROR, RESPONSE_OTHER}

\* Python's None for an attribute value, and for self._manifests.
None == "None"
NoManifests == [t |-> "None"]

-----------------------------------------------------------------------------
(* Bounds of the model.                                                    *)

\* Longest experiment name tried by the constructor.
MaxNameInput == 18

-----------------------------------------------------------------------------
(* Text: str.strip(), str.startswith(), "x in s".                          *)

Whitespace == {" ", "\n", "\t"}

RECURSIVE lstrip(_)
lstrip(s) ==
    IF s # <<>> /\ Head(s) \in Whitespace THEN lstrip(Tail(s)) ELSE s

RECURSIVE rstrip(_)
rstrip(s) ==
    IF s # <<>> /\ s[Len(s)] \in Whitespace
    THEN rstrip(SubSeq(s, 1, Len(s) - 1))
    ELSE s

strip(s) == rstrip(lstrip(s))

startswith(s, p) ==
    Len(s) >= Len(p) /\ SubSeq(s, 1, Len(p)) = p

contains(s, p) ==
    \E i \in 1..(Len(s) - Len(p) + 1) : SubSeq(s, i, i + Len(p) - 1) = p

LIT_STATUS_READY == <<"S", "t", "a", "t", "u", "s", ":", " ", "r", "e", "a", "d", "y">>
LIT_STATUS_PROVISIONING == <<"S", "t", "a", "t", "u", "s", ":", " ", "p", "r", "o", "v", "i", "s", "i", "o", "n", "i", "n", "g">>
LIT_STATUS_PROVISIONED == <<"S", "t", "a", "t", "u", "s", ":", " ", "p", "r", "o", "v", "i", "s", "i", "o", "n", "e", "d">>
LIT_STATUS_FAILED == <<"S", "t", "a", "t", "u", "s", ":", " ", "f", "a", "i", "l", "e", "d">>
LIT_NO_SUCH == <<"N", "o", " ", "s", "u", "c", "h", " ", "e", "x", "p", "e", "r", "i", "m", "e", "n", "t">>
LIT_UUID == <<"U", "U", "I", "D", ":">>
LIT_CREATING_IMAGE == <<"c", "r", "e", "a", "t", "i", "n", "g", " ", "i", "m", "a", "g", "e">>
LIT_BOOTING == <<"b", "o", "o", "t", "i", "n", "g">>

\* Payloads the status request may return in response['output'].
OUT_READY == <<"S", "t", "a", "t", "u", "s", ":", " ", "r", "e", "a", "d", "y">>
OUT_PROVISIONING_UUID == <<"S", "t", "a", "t", "u", "s", ":", " ", "p", "r", "o", "v", "i", "s", "i", "o", "n", "i", "n", "g", ",", " ", "U", "U", "I", "D", ":", " ", "a", "b", "c">>
OUT_PROVISIONED == <<"S", "t", "a", "t", "u", "s", ":", " ", "p", "r", "o", "v", "i", "s", "i", "o", "n", "e", "d">>
OUT_FAILED == <<"S", "t", "a", "t", "u", "s", ":", " ", "f", "a", "i", "l", "e", "d">>
OUT_NO_SUCH == <<"N", "o", " ", "s", "u", "c", "h", " ", "e", "x", "p", "e", "r", "i", "m", "e", "n", "t", " ", "f", "o", "o">>
OUT_UUID == <<"U", "U", "I", "D", ":", " ", "a", "b", "c">>
OUT_CREATING_IMAGE == <<"c", "r", "e", "a", "t", "i", "n", "g", " ", "i", "m", "a", "g", "e">>
OUT_BOOTING == <<"n", "o", "d", "e", " ", "b", "o", "o", "t", "i", "n", "g">>
OUT_EMPTY == <<>>
OUT_FAILED_BOOTING == <<"S", "t", "a", "t", "u", "s", ":", " ", "f", "a", "i", "l", "e", "d", " ", "b", "o", "o", "t", "i", "n", "g">>
OUT_LOWERCASE == <<"s", "t", "a", "t", "u", "s", ":", " ", "r", "e", "a", "d", "y">>
OUT_FAILED_PADDED == <<" ", "S", "t", "a", "t", "u", "s", ":", " ", "f", "a", "i", "l", "e", "d", "\n">>

\* A status response names its payload; Output gives response['output'].
StatusOutputs ==
    {"OUT_READY", "OUT_PROVISIONING_UUID", "OUT_PROVISIONED", "OUT_FAILED",
     "OUT_NO_SUCH", "OUT_UUID", "OUT_CREATING_IMAGE", "OUT_BOOTING", "OUT_EMPTY",
     "OUT_FAILED_BOOTING", "OUT_LOWERCASE", "OUT_FAILED_PADDED"}

OutputText ==
    [o \in StatusOutputs |->
        CASE o = "OUT_READY" -> OUT_READY
          [] o = "OUT_PROVISIONING_UUID" -> OUT_PROVISIONING_UUID
          [] o = "OUT_PROVISIONED" -> OUT_PROVISIONED
          [] o = "OUT_FAILED" -> OUT_FAILED
          [] o = "OUT_NO_SUCH" -> OUT_NO_SUCH
          [] o = "OUT_UUID" -> OUT_UUID
          [] o = "OUT_CREATING_IMAGE" -> OUT_CREATING_IMAGE
          [] o = "OUT_BOOTING" -> OUT_BOOTING
          [] o = "OUT_EMPTY" -> OUT_EMPTY
          [] o = "OUT_FAILED_BOOTING" -> OUT_FAILED_BOOTING
          [] o = "OUT_LOWERCASE" -> OUT_LOWERCASE
          [] o = "OUT_FAILED_PADDED" -> OUT_FAILED_PADDED]

\* Payloads tried with a result code other than success.
ErrorOutputs == {"OUT_NO_SUCH", "OUT_EMPTY", "OUT_READY"}

\* (rval, response) of prpc.get_experiment_status
StatusResponses ==
    [rval : {RESPONSE_SUCCESS}, output : StatusOutputs]
    \cup [rval : RVals \ {RESPONSE_SUCCESS}, output : ErrorOutputs]

\* response.get('output', '')
Output(sresp) == OutputText[sresp.output]

-----------------------------------------------------------------------------
(* Topology documents as xmltodict.parse returns them: an element is a     *)
(* dict, a repeated element a list, an element without content None, and   *)
(* text a str.  Every value carries its Python type in field t.            *)

PyNone == [t |-> "None"]
PyStr == [t |-> "str"]
HostDict(name, ipv4) == [t |-> "dict", name |-> name, ipv4 |-> ipv4]
PyList(items) == [t |-> "list", items |-> items]
NodeEntry(client_id, host) == [t |-> "dict", client_id |-> client_id, host |-> host]
Rspec(node) == [t |-> "dict", node |-> node]
Document(rspec) == [rspec |-> rspec]

ENTRY_0 == NodeEntry("node-0", HostDict("n0.example.net", "10.0.0.1"))
ENTRY_1 == NodeEntry("node-1", PyList(<<HostDict("aux.example.net", None),
                                         HostDict("n1.example.net", "10.0.0.2")>>))
ENTRY_NO_ID == NodeEntry(None, HostDict("n2.example.net", "10.0.0.3"))
ENTRY_NO_HOST == NodeEntry("node-3", PyNone)
ENTRY_NO_IP == NodeEntry("node-4", HostDict("n4.example.net", None))
ENTRY_NO_NAME == NodeEntry("node-5", HostDict("", "10.0.0.6"))

DOC_A == Document(Rspec(ENTRY_0))
DOC_B == Document(Rspec(ENTRY_1))
DOC_MIXED == Document(Rspec(PyList(<<ENTRY_NO_ID, ENTRY_1>>)))
DOC_INVALID == Document(Rspec(PyList(<<ENTRY_NO_HOST, PyStr, ENTRY_NO_IP, ENTRY_NO_NAME>>)))
DOC_NO_RSPEC == Document(PyNone)
DOC_NO_NODE == Document(Rspec(PyNone))
DOC_TEXT_RSPEC == Document(PyStr)

\* response['output'] of prpc.get_experiment_manifests after json.loads and
\* xmltodict.parse: undecodable JSON, an undecodable document, or the documents.
BadJson == [t |-> "badjson"]
BadXml == [t |-> "badxml"]
Docs(docs) == [t |-> "docs", docs |-> docs]

ManifestOutputs ==
    {BadJson, BadXml, Docs(<<>>), Docs(<<DOC_A>>), Docs(<<DOC_A, DOC_B>>),
     Docs(<<DOC_MIXED>>), Docs(<<DOC_INVALID>>),
     Docs(<<DOC_NO_RSPEC, DOC_TEXT_RSPEC, DOC_NO_NODE>>)}

\* (rval, response) of prpc.get_experiment_manifests
ManifestResponses ==
    [rval : {RESPONSE_SUCCESS}, output : ManifestOutputs]
    \cup [rval : {RESPONSE_ERROR}, output : {Docs(<<DOC_A>>)}]

-----------------------------------------------------------------------------
(* class Node, and the dict self.nodes.                                    *)

Node(client_id, ip_address, hostname) ==
    [client_id |-> client_id, ip_address |-> ip_address, hostname |-> hostname]

EmptyDict == [k \in {} |-> None]

DictSet(d, k, v) == [x \in DOMAIN d \cup {k} |-> IF x = k THEN v ELSE d[x]]

\* Python truth of an attribute value: None and '' are false.
Truthy(x) == x # None /\ x # ""

IsEmpty(d) == DOMAIN d = {}

-----------------------------------------------------------------------------
(* PowderExperiment._parse_manifests                                       *)

\* next((h for h in host_data if isinstance(h, dict) and h.get('@ipv4')), None)
RECURSIVE FirstHostWithIpv4(_)
FirstHostWithIpv4(hosts) ==
    IF hosts = <<>> THEN PyNone
    ELSE IF Head(hosts).t = "dict" /\ Truthy(Head(hosts).ipv4) THEN Head(hosts)
    ELSE FirstHostWithIpv4(Tail(hosts))

SelectHost(host_data) ==
    IF host_data.t = "list" THEN FirstHostWithIpv4(host_data.items)
    ELSE IF host_data.t = "dict" THEN host_data
    ELSE PyNone

\* One iteration of the loop over nodes_data: the registry after node_entry.
ParseNodeEntry(reg, node_entry) ==
    IF node_entry.t # "dict" THEN reg
    ELSE LET client_id == node_entry.client_id
             host_dict == SelectHost(node_entry.host)
         IN  IF ~Truthy(client_id) THEN reg
             ELSE IF host_dict.t # "dict" THEN reg
             ELSE IF ~Truthy(host_dict.name) \/ ~Truthy(host_dict.ipv4) THEN reg
             ELSE DictSet(reg, client_id,
                          Node(client_id, host_dict.ipv4, host_dict.name))

\* ParseNodeEntries that gives up the entries after an invalid one
RECURSIVE ParseNodeEntries_StopAtInvalid(_, _)
ParseNodeEntries_StopAtInvalid(reg, entries) ==
    IF entries = <<>> THEN reg
    ELSE IF ParseNodeEntry(reg, Head(entries)) = reg THEN reg
    ELSE ParseNodeEntries_StopAtInvalid(ParseNodeEntry(reg, Head(entries)),
                                        Tail(entries))

RECURSIVE ParseNodeEntries(_, _)
ParseNodeEntries(reg, entries) ==
    IF entries = <<>> THEN reg
    ELSE ParseNodeEntries(ParseNodeEntry(reg, Head(entries)), Tail(entries))

\* One iteration of the loop over self._manifests.  A str where the rspec dict
\* is expected raises inside the try and the document is given up.
ParseManifest(reg, manifest) ==
    LET rspec_data == manifest.rspec
    IN  IF rspec_data.t = "None" THEN reg
        ELSE IF rspec_data.t # "dict" THEN reg
        ELSE LET nodes_data == rspec_data.node
             IN  IF nodes_data.t = "None" THEN reg
                 ELSE IF nodes_data.t = "list"
                      THEN ParseNodeEntries(reg, nodes_data.items)
                      ELSE ParseNodeEntries(reg, <<nodes_data>>)

RECURSIVE ParseManifests(_, _)
ParseManifests(reg, docs) ==
    IF docs = <<>> THEN reg
    ELSE ParseManifests(ParseManifest(reg, Head(docs)), Tail(docs))

\* "not self._manifests": None or an empty list.
NoManifestsAvailable(m) == m.t = "None" \/ m.docs = <<>>

\* self is the record of the three fields the methods assign.
_parse_manifests(self) ==
    IF NoManifestsAvailable(self._manifests) THEN self
    ELSE [self EXCEPT !.nodes = ParseManifests(EmptyDict, self._manifests.docs)]

(* PowderExperiment._get_manifests                                         *)
_get_manifests(self, mresp) ==
    [self EXCEPT !._manifests =
        IF mresp.rval = RESPONSE_SUCCESS /\ mresp.output.t = "docs"
        THEN [t |-> "list", docs |-> mresp.output.docs]
        ELSE NoManifests]


-----------------------------------------------------------------------------
(* PowderExperiment._get_status                                            *)

\* lines 319-320: the result says the experiment does not exist
IsNoSuchExperiment(sresp) ==
    \/ sresp.rval = RESPONSE_BADARGS
    \/ /\ sresp.rval = RESPONSE_ERROR
       /\ contains(Output(sresp), LIT_NO_SUCH)

\* StatusFromOutput that looks for the provisioning markers first
StatusFromOutput_MarkersFirst(output) ==
    IF \/ contains(output, LIT_UUID)
       \/ contains(output, LIT_CREATING_IMAGE)
       \/ contains(output, LIT_BOOTING)
    THEN EXPERIMENT_PROVISIONING
    ELSE IF startswith(output, LIT_STATUS_READY) THEN EXPERIMENT_READY
    ELSE IF startswith(output, LIT_STATUS_PROVISIONING) THEN EXPERIMENT_PROVISIONING
    ELSE IF startswith(output, LIT_STATUS_PROVISIONED) THEN EXPERIMENT_PROVISIONED
    ELSE IF startswith(output, LIT_STATUS_FAILED) THEN EXPERIMENT_FAILED
    ELSE EXPERIMENT_UNKNOWN

\* lines 345-374: new_status from the stripped output, before manifests are looked at
StatusFromOutput(output) ==
    IF startswith(output, LIT_STATUS_READY) THEN EXPERIMENT_READY
    ELSE IF startswith(output, LIT_STATUS_PROVISIONING) THEN EXPERIMENT_PROVISIONING
    ELSE IF startswith(output, LIT_STATUS_PROVISIONED) THEN EXPERIMENT_PROVISIONED
    ELSE IF startswith(output, LIT_STATUS_FAILED) THEN EXPERIMENT_FAILED
    ELSE IF \/ contains(output, LIT_UUID)
            \/ contains(output, LIT_CREATING_IMAGE)
            \/ contains(output, LIT_BOOTING)
         THEN EXPERIMENT_PROVISIONING
         ELSE EXPERIMENT_UNKNOWN

\* lines 319-335 and 338-374 for one response: "null", "unknown" or
\* "success", and the new_status of a success.
Classify(sresp) ==
    [sresp |-> sresp,
     class |-> IF IsNoSuchExperiment(sresp) THEN "null"
               ELSE IF sresp.rval # RESPONSE_SUCCESS THEN "unknown"
               ELSE "success",
     new_status |-> StatusFromOutput(strip(Output(sresp)))]

\* Classify, computed once per response.
StatusOutcomes == {Classify(sresp) : sresp \in StatusResponses}

Outcome(sresp) == CHOOSE o \in StatusOutcomes : o.sresp = sresp

StatusClass(sresp) == Outcome(sresp).class

NewStatus(sresp) == Outcome(sresp).new_status

\* line 348: a ready response fetches manifests
\* NeedsManifests that asks for the manifests at every ready response
NeedsManifests_Always(self) == TRUE

NeedsManifests(self) ==
    self.status # EXPERIMENT_READY \/ IsEmpty(self.nodes)

\* FetchOnReady with the test of the node list inverted
FetchOnReady_Inverted(self, mresp) ==
    LET fetched == _parse_manifests(_get_manifests(self, mresp))
    IN  [fetched EXCEPT !.status =
            IF ~IsEmpty(fetched.nodes) THEN EXPERIMENT_FAILED ELSE EXPERIMENT_READY]

\* lines 350-355: fetch, parse, and the status that results
\* FetchOnReady that keeps READY whatever the parse gave
FetchOnReady_KeepsReady(self, mresp) ==
    LET fetched == _parse_manifests(_get_manifests(self, mresp))
    IN  [fetched EXCEPT !.status = EXPERIMENT_READY]

FetchOnReady(self, mresp) ==
    LET fetched == _parse_manifests(_get_manifests(self, mresp))
    IN  [fetched EXCEPT !.status =
            IF IsEmpty(fetched.nodes) THEN EXPERIMENT_FAILED ELSE EXPERIMENT_READY]

\* BecomeNull that keeps the node list
BecomeNull_KeepsNodes(self) ==
    IF self.status # EXPERIMENT_NULL
    THEN [self EXCEPT !.status = EXPERIMENT_NULL, !._manifests = NoManifests]
    ELSE self

\* lines 322-327
BecomeNull(self) ==
    IF self.status # EXPERIMENT_NULL
    THEN [status |-> EXPERIMENT_NULL, nodes |-> EmptyDict, _manifests |-> NoManifests]
    ELSE self

_get_status(self, sresp, mresp) ==
    IF StatusClass(sresp) = "null" THEN BecomeNull(self)
    ELSE IF StatusClass(sresp) = "unknown"
    THEN [self EXCEPT !.status = EXPERIMENT_UNKNOWN]
    ELSE IF NewStatus(sresp) = EXPERIMENT_READY
    THEN IF NeedsManifests(self)
         THEN FetchOnReady(self, mresp)
         ELSE [self EXCEPT !.status = EXPERIMENT_READY]
    ELSE [self EXCEPT !.status = NewStatus(sresp)]

\* Whether _get_status(self, sresp, .) issues the manifests request.
FetchesManifests(self, sresp) ==
    /\ StatusClass(sresp) = "success"
    /\ NewStatus(sresp) = EXPERIMENT_READY
    /\ NeedsManifests(self)

\* No manifests request was made in this step.
NoRequest == [rval |-> "none", output |-> BadJson]

\* The manifests responses a refresh may receive: none when it does not ask.
ManifestsFor(self, sresp) ==
    IF FetchesManifests(self, sresp) THEN ManifestResponses ELSE {NoRequest}

\* terminate that takes every answer for a success
terminate_IgnoresResult(self, rval) ==
    [status |-> EXPERIMENT_NULL, nodes |-> EmptyDict, _manifests |-> NoManifests]

\* terminate that marks the experiment FAILED when the request fails
terminate_FailedOnError(self, rval) ==
    IF rval = RESPONSE_SUCCESS
    THEN [status |-> EXPERIMENT_NULL, nodes |-> EmptyDict, _manifests |-> NoManifests]
    ELSE [self EXCEPT !.status = EXPERIMENT_FAILED]

(* PowderExperiment.terminate, lines 185-195                               *)
terminate(self, rval) ==
    IF rval = RESPONSE_SUCCESS
    THEN [status |-> EXPERIMENT_NULL, nodes |-> EmptyDict, _manifests |-> NoManifests]
    ELSE self

(* PowderExperiment.start_and_wait, lines 92-101 and 155-164: a READY      *)
(* experiment with an empty node list fetches the manifests once more.     *)
RefetchIfEmpty(self, mresp) ==
    IF IsEmpty(self.nodes)
    THEN LET fetched == _parse_manifests(_get_manifests(self, mresp))
         IN  IF IsEmpty(fetched.nodes)
             THEN [fetched EXCEPT !.status = EXPERIMENT_FAILED]
             ELSE fetched
    ELSE self

RefetchFor(self) ==
    IF self.status = EXPERIMENT_READY /\ IsEmpty(self.nodes)
    THEN ManifestResponses ELSE {NoRequest}

\* PollCondition with the bound compared by <= : one poll too many
PollCondition_OffByOne(st, n) ==
    /\ st \in {EXPERIMENT_PROVISIONING, EXPERIMENT_PROVISIONED,
               EXPERIMENT_NOT_STARTED, EXPERIMENT_UNKNOWN}
    /\ n <= _poll_count_max

\* line 145: the condition of the polling loop
PollCondition(st, n) ==
    /\ st \in {EXPERIMENT_PROVISIONING, EXPERIMENT_PROVISIONED,
               EXPERIMENT_NOT_STARTED, EXPERIMENT_UNKNOWN}
    /\ n < _poll_count_max

\* FinalEvaluation that returns an intermediate status as it is
FinalEvaluation_NoTimeout(self, mresp) ==
    IF self.status = EXPERIMENT_READY THEN RefetchIfEmpty(self, mresp)
    ELSE self

\* lines 152-171: the final status evaluation
FinalEvaluation(self, mresp) ==
    IF self.status = EXPERIMENT_READY THEN RefetchIfEmpty(self, mresp)
    ELSE IF self.status = EXPERIMENT_FAILED THEN self
    ELSE IF self.status \notin {EXPERIMENT_FAILED, EXPERIMENT_NULL}
         THEN [self EXCEPT !.status = EXPERIMENT_FAILED]
         ELSE self

\* line 122: a start request is needed
\* NeedsCleanup that terminates whatever the state
NeedsCleanup_Always(st) == TRUE

\* line 108: a FAILED experiment is terminated before the start
NeedsCleanup(st) == st = EXPERIMENT_FAILED

\* NeedsStart that asks for a start whatever the state
NeedsStart_Always(st) == TRUE

\* NeedsStart that leaves out an experiment still FAILED after the cleanup
NeedsStart_UnlessFailed(st) ==
    st \notin {EXPERIMENT_PROVISIONING, EXPERIMENT_PROVISIONED, EXPERIMENT_FAILED}

\* StartFailed that takes only the error code for a failed start
StartFailed_OnlyError(rval) == rval = RESPONSE_ERROR

\* line 126: the start request itself failed
StartFailed(rval) == rval # RESPONSE_SUCCESS

NeedsStart(st) ==
    st \notin {EXPERIMENT_PROVISIONING, EXPERIMENT_PROVISIONED}

\* NameTooLong with >= : a name of MAX_NAME_LENGTH characters is refused
NameTooLong_OffByOne(len) == len >= MAX_NAME_LENGTH

\* line 48: the name is too long
NameTooLong(len) == len > MAX_NAME_LENGTH


-----------------------------------------------------------------------------
(* The object's fields as one record, and the step that stores them back.  *)

Self == [status |-> status, nodes |-> nodes, _manifests |-> _manifests]

Store(self) ==
    /\ status' = self.status
    /\ nodes' = self.nodes
    /\ _manifests' = self._manifests

\* The valid nodes of the documents a manifests response carries.
FetchedNodes(mresp) ==
    IF mresp.rval = RESPONSE_SUCCESS /\ mresp.output.t = "docs"
    THEN ParseManifests(EmptyDict, mresp.output.docs)
    ELSE EmptyDict

HasDocuments(mresp) ==
    /\ mresp.rval = RESPONSE_SUCCESS
    /\ mresp.output.t = "docs"
    /\ mresp.output.docs # <<>>

\* What a refresh of self with these responses saw.
RefreshSaw(self, sresp, mresp) ==
    IF FetchesManifests(self, sresp) /\ HasDocuments(mresp)
    THEN IF IsEmpty(FetchedNodes(mresp)) THEN "ready_empty" ELSE "ready_nodes"
    ELSE "other"

\* Lengths of the experiment names given to the constructor.
NameLengths == (MAX_NAME_LENGTH - 1)..MaxNameInput

\* In place of a status where there is none: the status of a controller whose
\* construction failed, the return value of a call that has not returned.
NoObject == EXPERIMENT_NOT_STARTED - 1

-----------------------------------------------------------------------------
(* The controller holds no session and a session no controller (the caller *)
(* constructs both): each specification leaves the other object as it was  *)
(* before construction.                                                    *)

\* No inputs on record for a session call.
NoArg == [expectedline |-> "none", outcome |-> "none", before |-> "none", local |-> "none", prompt |-> "none"]

\* No return value on record (the call raised, or has not returned).
NoReturn == [t |-> "none"]

NoSession ==
    /\ spc = "unused"
    /\ password = None
    /\ ssh = None
    /\ retry_count = 0
    /\ scall = "none"
    /\ sarg = NoArg
    /\ sret = NoReturn
    /\ sraised = "none"
    /\ connected = FALSE
    /\ prevConnected = FALSE
    /\ log = <<>>

-----------------------------------------------------------------------------
(* PowderExperiment.__init__, lines 48-59: the fields after construction,  *)
(* or the ValueError.                                                      *)

\* No function of init_node.py runs.
NoCaller ==
    /\ fn = "none"
    /\ ipc = "unused"
    /\ ssh_conn = FALSE
    /\ exit_code = NoObject
    /\ closes = 0
    /\ exitstatus = "unread"

__init__(len) ==
    IF NameTooLong(len)
    THEN [raised |-> "ValueError", status |-> NoObject,
          nodes |-> EmptyDict, _manifests |-> NoManifests]
    ELSE [raised |-> "none", status |-> EXPERIMENT_NOT_STARTED,
          nodes |-> EmptyDict, _manifests |-> NoManifests]

\* No status response, and no status, on record.
NoResponse == [rval |-> "none", output |-> "none"]

Init ==
    \E len \in NameLengths :
        LET obj == __init__(len)
        IN  /\ NoSession
            /\ NoCaller
            /\ experiment_name = len
            /\ raised = obj.raised
            /\ pc = IF obj.raised = "none" THEN "idle" ELSE "ctor_failed"
            /\ status = obj.status
            /\ nodes = obj.nodes
            /\ _manifests = obj._manifests
            /\ poll_count = 0
            /\ call = "__init__"
            /\ ret = NoObject
            /\ rpcs = FALSE
            /\ starts = 0
            /\ terms = 0
            /\ termRval = "none"
            /\ pauses = 0
            /\ slept = 0
            /\ refreshSaw = "none"
            /\ readyNodes = FALSE
            /\ readyEmpty = "none"
            /\ loopExit = NoObject
            /\ statusResp = NoResponse
            /\ prevStatus = NoObject
            /\ manifestResp = NoRequest
            /\ initialStatus = NoObject
            /\ startRval = "none"

\* A top-level call begins: the records of the call start afresh.
BeginCall(name) ==
    /\ pc = "idle"
    /\ call' = name
    /\ rpcs' = TRUE
    /\ pauses' = 0
    /\ starts' = 0
    /\ loopExit' = NoObject
    /\ startRval' = "none"
    /\ UNCHANGED <<experiment_name, raised>>
    /\ UNCHANGED svars
    /\ UNCHANGED ivars

\* A step inside start_and_wait.
InCall ==
    /\ call' = call
    /\ UNCHANGED <<experiment_name, raised, rpcs, statusResp, prevStatus,
                   manifestResp, initialStatus>>
    /\ UNCHANGED svars
    /\ UNCHANGED ivars

\* The call returns; the locals of start_and_wait are gone.
Return(value) ==
    /\ pc' = "idle"
    /\ ret' = value
    /\ poll_count' = 0
    /\ slept' = 0

-----------------------------------------------------------------------------
(* check_status(), lines 70-73                                             *)

CheckStatus ==
    \E sresp \in StatusResponses : \E mresp \in ManifestsFor(Self, sresp) :
        LET self1 == _get_status(Self, sresp, mresp)
        IN  /\ BeginCall("check_status")
            /\ Store(self1)
            /\ Return(self1.status)
            /\ statusResp' = sresp
            /\ prevStatus' = status
            /\ manifestResp' = mresp
            /\ initialStatus' = NoObject
            /\ refreshSaw' = RefreshSaw(Self, sresp, mresp)
            /\ termRval' = "none"
            /\ terms' = 0
            /\ readyNodes' = FALSE
            /\ readyEmpty' = "none"

(* terminate() called by the owner, lines 184-195                          *)

Terminate ==
    \E rval \in RVals :
        LET self1 == terminate(Self, rval)
        IN  /\ BeginCall("terminate")
            /\ Store(self1)
            /\ Return(self1.status)
            /\ statusResp' = NoResponse
            /\ prevStatus' = status
            /\ manifestResp' = NoRequest
            /\ initialStatus' = NoObject
            /\ refreshSaw' = "none"
            /\ termRval' = rval
            /\ terms' = 1
            /\ readyNodes' = FALSE
            /\ readyEmpty' = "none"

-----------------------------------------------------------------------------
(* start_and_wait(), one action per control-plane exchange.                *)

\* lines 86-119: the initial check_status() and the branch on its result
StartAndWaitBegin ==
    \E sresp \in StatusResponses : \E mresp \in ManifestsFor(Self, sresp) :
        LET self1 == _get_status(Self, sresp, mresp)
            saw == RefreshSaw(Self, sresp, mresp)
        IN  \E mresp2 \in RefetchFor(self1) :
            LET self2 == IF self1.status = EXPERIMENT_READY
                         THEN RefetchIfEmpty(self1, mresp2) ELSE self1
            IN  /\ BeginCall("start_and_wait")
                /\ Store(self2)
                /\ statusResp' = NoResponse
                /\ prevStatus' = NoObject
                /\ manifestResp' = NoRequest
                /\ initialStatus' = self1.status
                /\ refreshSaw' = saw
                /\ termRval' = "none"
                /\ terms' = 0
                /\ readyNodes' = (saw = "ready_nodes")
                /\ readyEmpty' = IF saw = "ready_empty" THEN "initial" ELSE "none"
                /\ IF self1.status = EXPERIMENT_READY
                   THEN Return(self2.status)
                   ELSE /\ ret' = NoObject
                        /\ UNCHANGED <<poll_count, slept>>
                        /\ pc' = IF NeedsCleanup(self1.status) THEN "cleanup"
                                 ELSE IF NeedsStart(self1.status) THEN "start"
                                 ELSE "poll"

\* line 110: self.terminate() of a FAILED experiment, then line 122
StartAndWaitTerminate ==
    \E rval \in RVals :
        LET self1 == terminate(Self, rval)
        IN  /\ pc = "cleanup"
            /\ InCall
            /\ Store(self1)
            /\ terms' = terms + 1
            /\ termRval' = rval
            /\ refreshSaw' = "none"
            /\ pc' = IF NeedsStart(self1.status) THEN "start" ELSE "poll"
            /\ UNCHANGED <<poll_count, ret, starts, pauses, slept,
                           readyNodes, readyEmpty, loopExit, startRval>>

\* lines 123-134: the start request, and the pause after a success
StartAndWaitStart ==
    \E rval \in RVals :
        /\ pc = "start"
        /\ InCall
        /\ starts' = starts + 1
        /\ startRval' = rval
        /\ termRval' = "none"
        /\ refreshSaw' = "none"
        /\ IF StartFailed(rval)
           THEN /\ Store([Self EXCEPT !.status = EXPERIMENT_FAILED])
                /\ Return(EXPERIMENT_FAILED)
                /\ UNCHANGED pauses
           ELSE /\ Store(Self)
                /\ pauses' = pauses + 1
                /\ slept' = slept + START_PAUSE_S
                /\ pc' = "after_start"
                /\ UNCHANGED <<ret, poll_count>>
        /\ UNCHANGED <<terms, readyNodes, readyEmpty, loopExit>>

\* What a refresh inside start_and_wait adds to the records of the call.
NoteRefresh(saw) ==
    /\ refreshSaw' = saw
    /\ readyNodes' = (readyNodes \/ saw = "ready_nodes")
    /\ readyEmpty' = IF saw = "ready_empty" THEN "later" ELSE readyEmpty

\* lines 135-143: the status refresh after the pause
StartAndWaitAfterStart ==
    \E sresp \in StatusResponses : \E mresp \in ManifestsFor(Self, sresp) :
        LET self1 == _get_status(Self, sresp, mresp)
        IN  /\ pc = "after_start"
            /\ InCall
            /\ Store(self1)
            /\ NoteRefresh(RefreshSaw(Self, sresp, mresp))
            /\ termRval' = "none"
            /\ IF self1.status = EXPERIMENT_FAILED
               THEN Return(EXPERIMENT_FAILED)
               ELSE pc' = "poll" /\ UNCHANGED <<ret, poll_count, slept>>
            /\ UNCHANGED <<starts, terms, pauses, loopExit, startRval>>

\* lines 145-149: one iteration of the polling loop
StartAndWaitPoll ==
    \E sresp \in StatusResponses : \E mresp \in ManifestsFor(Self, sresp) :
        LET self1 == _get_status(Self, sresp, mresp)
        IN  /\ pc = "poll"
            /\ PollCondition(status, poll_count)
            /\ InCall
            /\ slept' = slept + POLL_INTERVAL_S
            /\ Store(self1)
            /\ NoteRefresh(RefreshSaw(Self, sresp, mresp))
            /\ poll_count' = poll_count + 1
            /\ termRval' = "none"
            /\ UNCHANGED <<pc, ret, starts, terms, pauses, loopExit, startRval>>

\* lines 151-174: the loop has ended
StartAndWaitFinal ==
    \E mresp \in RefetchFor(Self) :
        LET self1 == FinalEvaluation(Self, mresp)
        IN  /\ pc = "poll"
            /\ ~PollCondition(status, poll_count)
            /\ InCall
            /\ Store(self1)
            /\ Return(self1.status)
            /\ loopExit' = status
            /\ termRval' = "none"
            /\ refreshSaw' = "none"
            /\ UNCHANGED <<starts, terms, pauses, readyNodes, readyEmpty, startRval>>

\* The steps that carry a start_and_wait call on to its return.
StartAndWaitStep ==
    \/ StartAndWaitTerminate
    \/ StartAndWaitStart
    \/ StartAndWaitAfterStart
    \/ StartAndWaitPoll
    \/ StartAndWaitFinal

Next ==
    \/ CheckStatus
    \/ Terminate
    \/ StartAndWaitBegin
    \/ StartAndWaitStep

Spec == Init /\ [][Next]_vars

\* Every blocking call of start_and_wait returns (a response or a timeout of
\* the client; time.sleep ends), so a call that has begun keeps taking steps.
FairSpec == Spec /\ WF_vars(StartAndWaitStep)

-----------------------------------------------------------------------------
(* Properties.                                                             *)

Running == pc \in {"cleanup", "start", "after_start", "poll"}

Returned(name) == pc = "idle" /\ call = name

\* What start_and_wait has spent so far stays within its budget.
WithinBudget ==
    /\ poll_count <= 90
    /\ pauses <= 1
    /\ Running => slept = 20 * poll_count + 5 * pauses
    /\ slept <= 90 * 20 + 5

\* C1: for every sequence of control-plane responses start_and_wait returns,
\* and until then it has made at most 90 polls (a 20 s sleep and one status
\* refresh each) and at most one 5 s pause after the start request.
C1_EnsureReadyTerminatesWithinBudget ==
    /\ []WithinBudget
    /\ Running ~> Returned("start_and_wait")

\* C1 witness: the whole budget is spent, 90 polls and the pause.
C1_Witness ==
    pc = "poll" /\ poll_count = 90 /\ pauses = 1 /\ slept = 1805

\* C2: when a refresh made by start_and_wait saw ready and fetched documents
\* with at least one valid node, start_and_wait returns READY and the
\* registry is not empty.
C2_ReadyWithNodesReturnsReady ==
    (Returned("start_and_wait") /\ readyNodes) =>
        /\ ret = EXPERIMENT_READY
        /\ status = EXPERIMENT_READY
        /\ ~IsEmpty(nodes)

\* C2 witness: ready was reached by a poll, after the start request.
C2_Witness ==
    /\ Returned("start_and_wait")
    /\ readyNodes
    /\ starts = 1
    /\ loopExit = EXPERIMENT_READY
    /\ ret = EXPERIMENT_READY

\* C3: a ready response whose documents hold no valid node makes the state
\* FAILED, and a start_and_wait that saw one returns FAILED.
C3_ReadyWithoutNodesReturnsFailed ==
    /\ refreshSaw = "ready_empty" => status = EXPERIMENT_FAILED
    /\ (Returned("start_and_wait") /\ readyEmpty # "none") =>
           ret = EXPERIMENT_FAILED

\* C4: start_and_wait returns READY, FAILED or NULL only; a loop that ends in
\* any other status returns FAILED, and one that ends in NULL returns NULL.
C4_ReturnsReadyFailedOrNull ==
    Returned("start_and_wait") =>
        /\ ret \in {EXPERIMENT_READY, EXPERIMENT_FAILED, EXPERIMENT_NULL}
        /\ ret = status
        /\ loopExit \in {EXPERIMENT_NOT_STARTED, EXPERIMENT_PROVISIONING,
                         EXPERIMENT_PROVISIONED, EXPERIMENT_UNKNOWN}
               => ret = EXPERIMENT_FAILED
        /\ loopExit = EXPERIMENT_NULL => ret = EXPERIMENT_NULL

\* C4 witness: the loop ended while still provisioning (the budget was
\* spent) and the call returned FAILED.
C4_Witness ==
    /\ Returned("start_and_wait")
    /\ loopExit = EXPERIMENT_PROVISIONING
    /\ ret = EXPERIMENT_FAILED

\* C5 as claimed: the registry is non-empty only in state READY, and it is
\* empty in state NULL.
C5_RegistryOnlyWhenReady ==
    /\ ~IsEmpty(nodes) => status = EXPERIMENT_READY
    /\ status = EXPERIMENT_NULL => IsEmpty(nodes)

\* C6: a terminate request that succeeds sets the state to NULL and empties
\* registry and cached manifest; one that fails leaves all three as they were.
C6_TerminateEffect ==
    [][termRval' # "none" =>
          IF termRval' = RESPONSE_SUCCESS
          THEN /\ status' = EXPERIMENT_NULL
               /\ IsEmpty(nodes')
               /\ _manifests' = NoManifests
          ELSE UNCHANGED <<status, nodes, _manifests>>]_vars

\* C6 witness: a failed terminate() left a READY experiment and its registry.
C6_Witness ==
    /\ Returned("terminate")
    /\ termRval = RESPONSE_ERROR
    /\ status = EXPERIMENT_READY
    /\ ~IsEmpty(nodes)
    /\ _manifests # NoManifests

\* C7 as claimed: what a failed terminate() returns differs from what a
\* successful one returns (EXPERIMENT_NULL), whatever the state before.
C7_Original ==
    (Returned("terminate") /\ termRval # RESPONSE_SUCCESS) =>
        ret # EXPERIMENT_NULL

\* C7 amended: terminate() returns the state it leaves, NULL after a success
\* and the state before the call after a failure, so that a failure shows in
\* the return value exactly when the state before was not NULL.
C7_TerminateReturnsState ==
    Returned("terminate") =>
        /\ ret = status
        /\ termRval = RESPONSE_SUCCESS => ret = EXPERIMENT_NULL
        /\ termRval # RESPONSE_SUCCESS => ret = prevStatus

\* C7 witness: a failed terminate() of an experiment already NULL returned
\* NULL.
C7_Witness ==
    /\ Returned("terminate")
    /\ termRval = RESPONSE_ERROR
    /\ prevStatus = EXPERIMENT_NULL
    /\ ret = EXPERIMENT_NULL

\* C8: a name longer than 16 characters makes construction fail with the
\* ValueError and no control-plane request; a name of at most 16 characters
\* gives NOT_STARTED, an empty registry and no cached manifest.
C8_Construction ==
    /\ experiment_name > 16 =>
           /\ pc = "ctor_failed"
           /\ raised = "ValueError"
           /\ ~rpcs
    /\ (experiment_name <= 16 /\ call = "__init__") =>
           /\ pc = "idle"
           /\ raised = "none"
           /\ status = EXPERIMENT_NOT_STARTED
           /\ IsEmpty(nodes)
           /\ _manifests = NoManifests
           /\ ~rpcs

\* C8 witness: a name of 17 characters was refused.
C8_Witness ==
    experiment_name = 17 /\ pc = "ctor_failed" /\ raised = "ValueError"

\* The responses C9 is about: bad-arguments with any payload, or a generic
\* error whose payload is the one with the no-such-experiment marker.
SaysNoSuchExperiment(sresp) ==
    \/ sresp.rval = RESPONSE_BADARGS
    \/ sresp.rval = RESPONSE_ERROR /\ sresp.output = "OUT_NO_SUCH"

\* C9: after a refresh that received such a response the state is NULL and
\* registry and cached manifest are empty, whatever the state was before.
C9_NoSuchExperimentGivesNull ==
    (Returned("check_status") /\ SaysNoSuchExperiment(statusResp)) =>
        /\ status = EXPERIMENT_NULL
        /\ IsEmpty(nodes)
        /\ _manifests = NoManifests

\* C9 witness: a READY experiment became NULL on a generic error carrying the
\* marker.
C9_Witness ==
    /\ Returned("check_status")
    /\ statusResp = [rval |-> RESPONSE_ERROR, output |-> "OUT_NO_SUCH"]
    /\ prevStatus = EXPERIMENT_READY
    /\ status = EXPERIMENT_NULL

\* The classification C10 states, read from the payload as it is received.
ClaimedClass(sresp) ==
    IF sresp.rval # RESPONSE_SUCCESS THEN EXPERIMENT_UNKNOWN
    ELSE CASE sresp.output = "OUT_READY" -> EXPERIMENT_READY
           [] sresp.output = "OUT_PROVISIONING_UUID" -> EXPERIMENT_PROVISIONING
           [] sresp.output = "OUT_PROVISIONED" -> EXPERIMENT_PROVISIONED
           [] sresp.output \in {"OUT_FAILED", "OUT_FAILED_BOOTING"} -> EXPERIMENT_FAILED
           [] sresp.output \in {"OUT_UUID", "OUT_CREATING_IMAGE", "OUT_BOOTING"}
                  -> EXPERIMENT_PROVISIONING
           [] OTHER -> EXPERIMENT_UNKNOWN

\* The same with the prefixes looked for after the whitespace around the
\* payload is removed.
TrimmedClass(sresp) ==
    IF sresp.rval = RESPONSE_SUCCESS /\ sresp.output = "OUT_FAILED_PADDED"
    THEN EXPERIMENT_FAILED
    ELSE ClaimedClass(sresp)

\* The state a refresh leaves for a class: the class itself, and for READY
\* either READY with nodes or FAILED without.
StateIs(class) ==
    IF class = EXPERIMENT_READY
    THEN \/ status = EXPERIMENT_READY /\ ~IsEmpty(nodes)
         \/ status = EXPERIMENT_FAILED /\ IsEmpty(nodes)
    ELSE status = class

\* C10 as claimed: prefixes and markers are looked for in the payload as
\* received.
C10_Original ==
    (Returned("check_status") /\ ~SaysNoSuchExperiment(statusResp)) =>
        StateIs(ClaimedClass(statusResp))

\* C10 amended: a non-success result gives UNKNOWN; for a success the four
\* prefixes are looked for in the payload with surrounding whitespace
\* removed and take precedence over the markers; without a prefix a marker
\* gives PROVISIONING and anything else UNKNOWN.
C10_Classification ==
    (Returned("check_status") /\ ~SaysNoSuchExperiment(statusResp)) =>
        StateIs(TrimmedClass(statusResp))

\* C10 witness: "Status: failed booting" gave FAILED, the prefix winning over
\* the marker.
C10_Witness ==
    /\ Returned("check_status")
    /\ statusResp = [rval |-> RESPONSE_SUCCESS, output |-> "OUT_FAILED_BOOTING"]
    /\ prevStatus = EXPERIMENT_PROVISIONING
    /\ status = EXPERIMENT_FAILED

-----------------------------------------------------------------------------
-----------------------------------------------------------------------------
(* powder/ssh.py: SSHConnection.  The remote side and the pexpect library  *)
(* are the environment: what a spawn does and which pattern an expect()    *)
(* meets are chosen by \E.  Of pexpect the model takes that the closed     *)
(* flag of a handle is set by close() alone (an end-of-stream leaves it    *)
(* unset), that expect() raises EOF or TIMEOUT when they are not among the *)
(* patterns, and that sendline() on an open handle and close(force=True)   *)
(* do not fail (so the handler of close(), lines 367-373, is not entered). *)

\* DEFAULT_PROMPT, line 18; every session here is built with the default.
DEFAULT_PROMPT == "\\$"

\* max_retries of open(), line 83
max_retries == 4

\* The base of the backoff delay, line 189: wait_time = 2 ** retry_count
BACKOFF_BASE == 2

\* Timeout of the file copy in seconds, line 320
SCP_TIMEOUT_S == 180

\* Values of KEYPWORD in the environment: unset, empty, a passphrase.
Passphrases == {None, "", "secret"}

\* "if self.password:", lines 45, 111, 149, 312
PasswordSet_NotNone(pw) == pw # None

PasswordSet(pw) == pw # None /\ pw # ""

\* expected_patterns of open(), lines 90-98, by what each pattern stands for;
\* pexpect counts from 0.
expected_patterns ==
    <<"prompt", "password", "passphrase", "denied", "hostkey", "EOF", "TIMEOUT">>

Matched(i) == expected_patterns[i + 1]

PatternIndexes == 0..(Len(expected_patterns) - 1)

\* What the expect() after the passphrase can meet, lines 115 and 152: its two
\* patterns, or the EOF or TIMEOUT that pexpect raises.
PassphraseReplies == {"prompt", "denied", "EOF", "TIMEOUT"}

\* What pexpect.spawn does, line 87: a handle, or ExceptionPexpect.
SpawnOutcomes == {"spawned", "ExceptionPexpect"}

-----------------------------------------------------------------------------
(* The log of a call: what it did to processes, in order.                  *)

Ev(e, s, n) == [e |-> e, s |-> s, n |-> n]

\* pexpect.spawn(ssh_command) that returned a handle, or raised
Spawn == Ev("spawn", "spawned", 0)
SpawnRaised == Ev("spawn", "ExceptionPexpect", 0)
\* expect() number round of the attempt met what
Expect(round, what) == Ev("expect", what, round)
\* self.ssh.sendline(text)
Sendline(text) == Ev("sendline", text, 0)
\* self.ssh.close(force=True)
ForceClose == Ev("close", "force", 0)
\* time.sleep(seconds)
Sleep(seconds) == Ev("sleep", "", seconds)
\* command(): expect([pattern, EOF, TIMEOUT]) gave index i
Await(pattern, i) == Ev("await", pattern, i)
\* pexpect.run(scp_command, timeout=...)
RunScp == Ev("run", "scp", SCP_TIMEOUT_S)

Count(seq, e) == Cardinality({n \in 1..Len(seq) : seq[n].e = e})

Sent(seq) == SelectSeq(seq, LAMBDA ev : ev.e = "sendline")

Sleeps(seq) == SelectSeq(seq, LAMBDA ev : ev.e = "sleep")

-----------------------------------------------------------------------------
(* SSHConnection.__init__, lines 30-57.  username: the argument is given;  *)
(* USER: the variable is set; CERT: None (unset), "nofile" (a path that    *)
(* does not exist) or "file".                                              *)

Environments ==
    [username : BOOLEAN, USER : BOOLEAN, KEYPWORD : Passphrases,
     CERT : {None, "nofile", "file"}]

SSHConnection__init__(env) ==
    IF ~env.username /\ ~env.USER
    THEN [raised |-> "ValueError", password |-> None]
    ELSE IF env.CERT = None
    THEN [raised |-> "ValueError", password |-> env.KEYPWORD]
    ELSE IF env.CERT = "nofile"
    THEN [raised |-> "FileNotFoundError", password |-> env.KEYPWORD]
    ELSE [raised |-> "none", password |-> env.KEYPWORD]

\* The controller before construction, while a session is used.
NoController ==
    /\ pc = "unused"
    /\ experiment_name = NoObject
    /\ status = NoObject
    /\ nodes = EmptyDict
    /\ _manifests = NoManifests
    /\ poll_count = 0
    /\ call = "none"
    /\ ret = NoObject
    /\ raised = "none"
    /\ rpcs = FALSE
    /\ starts = 0
    /\ terms = 0
    /\ termRval = "none"
    /\ pauses = 0
    /\ slept = 0
    /\ refreshSaw = "none"
    /\ readyNodes = FALSE
    /\ readyEmpty = "none"
    /\ loopExit = NoObject
    /\ statusResp = NoResponse
    /\ prevStatus = NoObject
    /\ manifestResp = NoRequest
    /\ initialStatus = NoObject
    /\ startRval = "none"

SshInit ==
    \E env \in Environments :
        LET obj == SSHConnection__init__(env)
        IN  /\ NoController
            /\ NoCaller
            /\ spc = IF obj.raised = "none" THEN "idle" ELSE "ctor_failed"
            /\ password = obj.password
            /\ ssh = None
            /\ retry_count = 0
            /\ scall = "__init__"
            /\ sarg = NoArg
            /\ sret = NoReturn
            /\ sraised = obj.raised
            /\ connected = FALSE
            /\ prevConnected = FALSE
            /\ log = <<>>

-----------------------------------------------------------------------------
(* open(), lines 82-195: one connection attempt as a function of what the  *)
(* process answers.  An attempt ends in "return", "raise" or "retry".      *)

Attempt(h, ev, result, error) ==
    [ssh |-> h, ev |-> ev, result |-> result, error |-> error]

\* "if self.ssh and not self.ssh.closed: self.ssh.close(force=True)" and then
\* the retry logic, lines 167, 173, 178, 182-183
CloseAndRetry(h, ev) ==
    IF h = "open"
    THEN Attempt("closed", Append(ev, ForceClose), "retry", "none")
    ELSE Attempt(h, ev, "retry", "none")

\* lines 112-122 (cleanup: the handle is closed before the raise) and
\* lines 150-158 (no cleanup)
SendPassphrase_DeniedRetries(pw, round, reply, cleanup, ev) ==
    LET ev1 == ev \o <<Sendline(pw), Expect(round, reply)>>
    IN  IF reply = "prompt"
        THEN Attempt("open", ev1, "return", "none")
        ELSE CloseAndRetry("open", ev1)

SendPassphrase(pw, round, reply, cleanup, ev) ==
    LET ev1 == ev \o <<Sendline(pw), Expect(round, reply)>>
    IN  CASE reply = "prompt" -> Attempt("open", ev1, "return", "none")
          [] reply = "denied" ->
                IF cleanup
                THEN Attempt("closed", Append(ev1, ForceClose), "raise", "ValueError")
                ELSE Attempt("open", ev1, "raise", "ValueError")
          [] OTHER -> CloseAndRetry("open", ev1)

\* lines 137-168: the host key is accepted and the patterns are tried once more
ExtraRound_AcceptsAgain(pw, k, l, ev) ==
    LET ev1 == ev \o <<Sendline("yes"), Expect(2, Matched(k))>>
    IN  IF Matched(k) = "hostkey"
        THEN Attempt("open", ev1 \o <<Sendline("yes"), Expect(2, "prompt")>>,
                     "return", "none")
        ELSE IF Matched(k) = "prompt"
        THEN Attempt("open", ev1, "return", "none")
        ELSE CloseAndRetry("open", ev1)

ExtraRound(pw, k, l, ev) ==
    LET ev1 == ev \o <<Sendline("yes"), Expect(2, Matched(k))>>
    IN  CASE Matched(k) = "prompt" -> Attempt("open", ev1, "return", "none")
          [] Matched(k) = "password" -> Attempt("open", ev1, "raise", "ValueError")
          [] Matched(k) = "passphrase" ->
                IF PasswordSet(pw)
                THEN SendPassphrase(pw, 3, l, FALSE, ev1)
                ELSE Attempt("open", ev1, "raise", "ValueError")
          [] Matched(k) = "denied" ->
                Attempt("open", ev1, "raise", "ConnectionRefusedError")
          [] OTHER -> CloseAndRetry("open", ev1)

\* lines 99-178: the first expect() of the attempt and the branch on it
FirstRound(pw, i, j, k, l, ev) ==
    LET ev1 == Append(ev, Expect(1, Matched(i)))
        closed == Append(ev1, ForceClose)
    IN  CASE Matched(i) = "prompt" -> Attempt("open", ev1, "return", "none")
          [] Matched(i) = "password" -> Attempt("closed", closed, "raise", "ValueError")
          [] Matched(i) = "passphrase" ->
                IF PasswordSet(pw)
                THEN SendPassphrase(pw, 3, j, TRUE, ev1)
                ELSE Attempt("closed", closed, "raise", "ValueError")
          [] Matched(i) = "denied" ->
                Attempt("closed", closed, "raise", "ConnectionRefusedError")
          [] Matched(i) = "hostkey" -> ExtraRound(pw, k, l, ev1)
          [] OTHER -> CloseAndRetry("open", ev1)

\* lines 85-183: the spawn and what follows; a spawn that raises leaves
\* self.ssh as it was and the handler closes it if it is open
TryConnect(h, pw, sp, i, j, k, l) ==
    IF sp = "ExceptionPexpect"
    THEN CloseAndRetry(h, <<SpawnRaised>>)
    ELSE FirstRound(pw, i, j, k, l, <<Spawn>>)

\* line 189
wait_time_Linear(n) == BACKOFF_BASE * n

wait_time(n) == BACKOFF_BASE ^ n

\* line 84 and line 187
MoreAttempts_OffByOne(n) == n <= max_retries

MoreAttempts(n) == n < max_retries

\* The answers that matter to an attempt, so that none is enumerated in vain.
PassphraseRepliesFor(pw, what) ==
    IF what = "passphrase" /\ PasswordSet(pw) THEN PassphraseReplies ELSE {"none"}

ExtraRoundFor(i) ==
    IF Matched(i) = "hostkey" THEN PatternIndexes ELSE {0}

-----------------------------------------------------------------------------
(* command(), lines 217-243                                                *)

\* Text the process may have written before the match, by name.
B_PLAIN == <<"o", "k">>
B_LEADING == <<"\n", "o", "k">>
B_TRAILING == <<"o", "k", " ", "\n">>
B_EMPTY == <<>>

BeforeTexts == {"B_PLAIN", "B_LEADING", "B_TRAILING", "B_EMPTY"}

BeforeText(b) ==
    CASE b = "B_PLAIN" -> B_PLAIN
      [] b = "B_LEADING" -> B_LEADING
      [] b = "B_TRAILING" -> B_TRAILING
      [] b = "B_EMPTY" -> B_EMPTY

\* The command line sent; the expectedline arguments tried: None (not given),
\* the empty pattern, a pattern of the caller.
COMMANDLINE == "uname -a"

ExpectedLines == {None, "", "done"}

\* What expect([effective_expectedline, EOF, TIMEOUT]) returns, line 229
CommandOutcomes == <<"match", "EOF", "TIMEOUT">>

\* line 222
effective_expectedline(expectedline) ==
    IF expectedline # None THEN expectedline ELSE DEFAULT_PROMPT

\* line 232
output_before_TrailingOnly(b) == rstrip(BeforeText(b))

output_before(b) == strip(BeforeText(b))

\* line 217
NotOpen(h) == h = None \/ h = "closed"

Returns(value) == [raised |-> "none", ret |-> value]

Raises(error) == [raised |-> error, ret |-> NoReturn]

\* command() that marks the handle closed when the stream ends
command_ClosesOnEOF(h, expectedline, i, b) ==
    IF NotOpen(h)
    THEN [ssh |-> h, ev |-> <<>>] @@ Raises("ConnectionError")
    ELSE [ssh |-> IF CommandOutcomes[i + 1] = "EOF" THEN "closed" ELSE h,
          ev |-> <<Sendline(COMMANDLINE), Await(effective_expectedline(expectedline), i)>>]
         @@ CASE CommandOutcomes[i + 1] = "match" ->
                    Returns([t |-> "str", v |-> output_before(b)])
              [] CommandOutcomes[i + 1] = "EOF" -> Raises("ConnectionAbortedError")
              [] CommandOutcomes[i + 1] = "TIMEOUT" -> Raises("TimeoutError")

\* lines 217-243; no path assigns self.ssh or closes it
command(h, expectedline, i, b) ==
    IF NotOpen(h)
    THEN [ssh |-> h, ev |-> <<>>] @@ Raises("ConnectionError")
    ELSE [ssh |-> h,
          ev |-> <<Sendline(COMMANDLINE), Await(effective_expectedline(expectedline), i)>>]
         @@ CASE CommandOutcomes[i + 1] = "match" ->
                    Returns([t |-> "str", v |-> output_before(b)])
              [] CommandOutcomes[i + 1] = "EOF" -> Raises("ConnectionAbortedError")
              [] CommandOutcomes[i + 1] = "TIMEOUT" -> Raises("TimeoutError")

-----------------------------------------------------------------------------
(* copy_to(), copy_from(), _run_scp(), lines 266-345                       *)

\* What pexpect.run does: the exit status of scp (None when a signal ended
\* it), pexpect.TIMEOUT after SCP_TIMEOUT_S, or another exception.
ScpOutcomes == {"exit0", "exit1", "exitNone", "TIMEOUT", "Exception"}

\* The prompt scp shows while it runs, if any.
ScpPrompts == {"none", "passphrase", "password"}

\* lines 311-314: the prompts the events dict answers with the passphrase
scp_events(pw) ==
    IF PasswordSet(pw) THEN {"passphrase", "password"} ELSE {}

\* pexpect.run answers a prompt that matches a key of events.
ScpAnswers(pw, prompt) ==
    IF prompt \in scp_events(pw) THEN <<Sendline(pw)>> ELSE <<>>

\* _run_scp that lets the timeout of the copy through
_run_scp_TimeoutRaises(pw, prompt, outcome) ==
    [ev |-> <<RunScp>> \o ScpAnswers(pw, prompt)]
    @@ IF outcome = "TIMEOUT" THEN Raises("TIMEOUT")
       ELSE Returns([t |-> "bool", v |-> (outcome = "exit0")])

\* lines 310-345: the events, the branch on exit_status and the two handlers
_run_scp(pw, prompt, outcome) ==
    [ev |-> <<RunScp>> \o ScpAnswers(pw, prompt)]
    @@ CASE outcome = "TIMEOUT" -> Returns([t |-> "bool", v |-> FALSE])
         [] outcome = "Exception" -> Returns([t |-> "bool", v |-> FALSE])
         [] outcome = "exit0" -> Returns([t |-> "bool", v |-> TRUE])
         [] OTHER -> Returns([t |-> "bool", v |-> FALSE])

\* line 266: os.path.exists(local_path)
LocalFiles == {"exists", "missing"}

copy_to_NoCheck(pw, local, prompt, outcome) == _run_scp(pw, prompt, outcome)

copy_to(pw, local, prompt, outcome) ==
    IF local = "missing"
    THEN [ev |-> <<>>] @@ Raises("FileNotFoundError")
    ELSE _run_scp(pw, prompt, outcome)

copy_from(pw, local, prompt, outcome) == _run_scp(pw, prompt, outcome)

-----------------------------------------------------------------------------
(* close(), lines 357-377                                                  *)

\* What expect([EOF, TIMEOUT], timeout=wait_s) meets, line 362
CloseWaits == {"EOF", "TIMEOUT"}

close_NoForce(h, wait) ==
    IF h = "open"
    THEN [ssh |-> h, ev |-> <<Sendline("exit"), Expect(1, wait)>>]
         @@ Returns([t |-> "bool", v |-> TRUE])
    ELSE [ssh |-> h, ev |-> <<>>] @@ Returns([t |-> "bool", v |-> TRUE])

close(h, wait) ==
    IF h = "open"
    THEN [ssh |-> "closed", ev |-> <<Sendline("exit"), Expect(1, wait), ForceClose>>]
         @@ Returns([t |-> "bool", v |-> TRUE])
    ELSE [ssh |-> h, ev |-> <<>>] @@ Returns([t |-> "bool", v |-> TRUE])

-----------------------------------------------------------------------------
(* The calls of the session's owner.                                       *)

\* A call that runs in one step begins and ends.
SessionCall(name, arg, r) ==
    /\ spc = "idle"
    /\ spc' = "idle"
    /\ scall' = name
    /\ sarg' = arg
    /\ sret' = r.ret
    /\ sraised' = r.raised
    /\ log' = r.ev
    /\ prevConnected' = connected
    /\ UNCHANGED <<password, retry_count>>
    /\ UNCHANGED vars

\* open() begins, lines 74-83
OpenBeginStep ==
    /\ spc = "idle"
    /\ spc' = "open"
    /\ scall' = "open"
    /\ sarg' = NoArg
    /\ sret' = NoReturn
    /\ sraised' = "none"
    /\ retry_count' = 0
    /\ log' = <<>>
    /\ prevConnected' = connected
    /\ UNCHANGED <<password, ssh, connected>>
    /\ UNCHANGED vars

\* open() ends: it returns self, or raises
OpenEnds(r, ev) ==
    /\ spc' = "idle"
    /\ sret' = r.ret
    /\ sraised' = r.raised
    /\ connected' = (r.raised = "none")
    /\ retry_count' = 0
    /\ log' = log \o ev

\* lines 84-195: one iteration of the retry loop, and the end of the loop
OpenAttemptStep ==
    \E sp \in SpawnOutcomes :
    \E i \in (IF sp = "spawned" THEN PatternIndexes ELSE {0}) :
    \E j \in PassphraseRepliesFor(password, Matched(i)) :
    \E k \in ExtraRoundFor(i) :
    \E l \in PassphraseRepliesFor(password, IF Matched(i) = "hostkey" THEN Matched(k) ELSE "none") :
        LET a == TryConnect(ssh, password, sp, i, j, k, l)
            n == retry_count + 1
        IN  /\ spc = "open"
            /\ MoreAttempts(retry_count)
            /\ ssh' = a.ssh
            /\ CASE a.result = "return" -> OpenEnds(Returns([t |-> "self"]), a.ev)
                 [] a.result = "raise" -> OpenEnds(Raises(a.error), a.ev)
                 [] a.result = "retry" /\ MoreAttempts(n) ->
                        /\ retry_count' = n
                        /\ log' = log \o a.ev \o <<Sleep(wait_time(n))>>
                        /\ UNCHANGED <<spc, sret, sraised, connected>>
                 [] OTHER -> OpenEnds(Raises("ConnectionError"), a.ev)
            /\ UNCHANGED <<password, scall, sarg, prevConnected>>
            /\ UNCHANGED vars

CommandStep ==
    \E expectedline \in ExpectedLines : \E i \in 0..2 : \E b \in BeforeTexts :
        LET r == command(ssh, expectedline, i, b)
        IN  /\ SessionCall("command",
                           [expectedline |-> expectedline, outcome |-> CommandOutcomes[i + 1],
                            before |-> b, local |-> "none", prompt |-> "none"], r)
            /\ ssh' = r.ssh
            /\ UNCHANGED connected

CopyTo ==
    \E local \in LocalFiles : \E prompt \in ScpPrompts : \E outcome \in ScpOutcomes :
        /\ SessionCall("copy_to",
                       [expectedline |-> "none", outcome |-> outcome,
                        before |-> "none", local |-> local, prompt |-> prompt],
                       copy_to(password, local, prompt, outcome))
        /\ UNCHANGED <<ssh, connected>>
        /\ UNCHANGED ivars

CopyFrom ==
    \E local \in LocalFiles : \E prompt \in ScpPrompts : \E outcome \in ScpOutcomes :
        /\ SessionCall("copy_from",
                       [expectedline |-> "none", outcome |-> outcome,
                        before |-> "none", local |-> local, prompt |-> prompt],
                       copy_from(password, local, prompt, outcome))
        /\ UNCHANGED <<ssh, connected>>
        /\ UNCHANGED ivars

CloseStep ==
    \E wait \in CloseWaits :
        LET r == close(ssh, wait)
        IN  /\ SessionCall("close",
                           [expectedline |-> "none", outcome |-> wait,
                            before |-> "none", local |-> "none", prompt |-> "none"], r)
            /\ ssh' = r.ssh
            /\ connected' = FALSE

\* The calls of an owner the model does not follow.
OpenBegin == OpenBeginStep /\ UNCHANGED ivars

OpenAttempt == OpenAttemptStep /\ UNCHANGED ivars

Command == CommandStep /\ UNCHANGED ivars

Close == CloseStep /\ UNCHANGED ivars

SshNext ==
    \/ OpenBegin
    \/ OpenAttempt
    \/ Command
    \/ CopyTo
    \/ CopyFrom
    \/ Close

SshSpec == SshInit /\ [][SshNext]_svars

-----------------------------------------------------------------------------
(* Properties of the session.                                              *)

OpenRunning == spc = "open"

SessionReturned(name) == spc = "idle" /\ scall = name /\ sraised = "none"

SessionRaised(name, error) == spc = "idle" /\ scall = name /\ sraised = error

\* The attempts of the call so far: each begins with a spawn.
Attempts == Count(log, "spawn")

\* An expect() of open() that ends the attempt as a transient failure: a
\* timeout or an end-of-stream, or a second host-key question.
TransientExpect(ev) ==
    /\ ev.e = "expect"
    /\ \/ ev.s \in {"EOF", "TIMEOUT"}
       \/ ev.s = "hostkey" /\ ev.n = 2

\* The last attempt on the log ended as a transient failure: the spawn
\* raised, or the last expect() was transient; a forced termination may follow.
LastAttemptTransient ==
    /\ log # <<>>
    /\ LET last == IF log[Len(log)] = ForceClose /\ Len(log) > 1
                   THEN log[Len(log) - 1] ELSE log[Len(log)]
       IN  last = SpawnRaised \/ TransientExpect(last)

\* The last expect() on the log met the success prompt.
LastSawPrompt ==
    /\ log # <<>>
    /\ log[Len(log)].e = "expect"
    /\ log[Len(log)].s = "prompt"

\* C11: while open() runs, the attempts made so far all failed transiently
\* and are fewer than 4; when k attempts have failed transiently, open() has
\* made min(k, 4) failed attempts: after the 4th it raises ConnectionError and
\* no 5th process is spawned, and with k < 4 an attempt k + 1 that meets the
\* prompt returns with the session Connected.
C11_TransientFailuresBoundAttempts ==
    scall = "open" =>
        /\ Attempts <= 4
        /\ OpenRunning =>
              /\ retry_count = Attempts
              /\ retry_count = Len(Sleeps(log))
              /\ retry_count < 4
              /\ Attempts > 0 => LastAttemptTransient \/ log[Len(log)].e = "sleep"
        /\ SessionRaised("open", "ConnectionError") <=>
              (spc = "idle" /\ Attempts = 4 /\ LastAttemptTransient)
        /\ SessionRaised("open", "ConnectionError") =>
              Len(Sleeps(log)) = 3 /\ ~connected
        /\ (spc = "idle" /\ LastSawPrompt) =>
              /\ SessionReturned("open")
              /\ connected
              /\ ssh = "open"
              /\ Attempts = Len(Sleeps(log)) + 1

\* C11 witness: four attempts failed transiently and open() raised.
C11_Witness ==
    /\ SessionRaised("open", "ConnectionError")
    /\ Attempts = 4
    /\ Len(Sleeps(log)) = 3

\* An expect() of open() that met a fatal answer: a request for the user's
\* password, or a denial (in round 3, after the passphrase was sent).
FatalExpect(ev) ==
    ev.e = "expect" /\ ev.s \in {"password", "denied"}

\* The exception open() raises for a fatal answer.
FatalError(ev) ==
    IF ev.s = "denied" /\ ev.n # 3 THEN "ConnectionRefusedError" ELSE "ValueError"

\* C12: once an expect() of open() has met a password request, a denial, or
\* a denial after the passphrase was sent, on any attempt, open() has raised:
\* nothing is spawned, slept or sent after that answer.
C12_FatalAnswersRaiseAtOnce ==
    scall = "open" =>
        \A p \in 1..Len(log) :
            FatalExpect(log[p]) =>
                /\ SessionRaised("open", FatalError(log[p]))
                /\ \A q \in (p + 1)..Len(log) :
                       log[q].e \notin {"spawn", "sleep", "sendline", "expect"}

\* C12 witness: after two transient failures the third attempt sent the
\* passphrase and was denied.
C12_Witness ==
    /\ SessionRaised("open", "ValueError")
    /\ Attempts = 3
    /\ Len(Sleeps(log)) = 2
    /\ \E p \in 1..Len(log) : log[p] = Expect(3, "denied")

\* The attempt that event p of the log belongs to.
AttemptAt(p) == Count(SubSeq(log, 1, p), "spawn")

\* The delays before attempts 2, 3 and 4.
BackoffDelays == <<2, 4, 8>>

\* C13: a transient failure is followed by the forced termination of the
\* process; after that, if the attempt was not the 4th, comes the sleep of 2,
\* 4 or 8 seconds before attempts 2, 3, 4, and if it was the 4th nothing
\* comes.  Every sleep follows a failed attempt at once (a forced termination,
\* or a spawn that raised and left no process).
C13_BackoffAfterTermination ==
    scall = "open" =>
        /\ \A p \in 1..Len(log) :
              TransientExpect(log[p]) =>
                  /\ p < Len(log)
                  /\ log[p + 1] = ForceClose
                  /\ IF AttemptAt(p) < 4
                     THEN /\ p + 2 <= Len(log)
                          /\ log[p + 2] = Sleep(BackoffDelays[AttemptAt(p)])
                     ELSE Len(log) = p + 1
        /\ \A p \in 1..Len(log) :
              log[p].e = "sleep" =>
                  /\ p > 1
                  /\ log[p - 1] \in {ForceClose, SpawnRaised}
                  /\ log[p] = Sleep(BackoffDelays[AttemptAt(p)])
                  /\ AttemptAt(p) < 4
        /\ LET sl == Sleeps(log)
           IN  /\ Len(sl) <= 3
               /\ \A n \in 1..Len(sl) : sl[n].n = BackoffDelays[n]

\* C13 witness: four attempts timed out; the log holds the three sleeps of 2,
\* 4 and 8 seconds and ends with the termination of the 4th process.
C13_Witness ==
    /\ spc = "idle"
    /\ scall = "open"
    /\ Sleeps(log) = <<Sleep(2), Sleep(4), Sleep(8)>>
    /\ Len(log) = 15
    /\ log[Len(log) - 1] = Expect(1, "TIMEOUT")
    /\ log[Len(log)] = ForceClose

\* C14: when no passphrase is configured (KEYPWORD unset or empty) and an
\* expect() of open() meets the passphrase request, in the first round or in
\* the extra round after the host key was accepted, open() has raised
\* ValueError: nothing is sent, spawned, slept or awaited after the request,
\* and the passphrase is never sent.
C14_PassphraseRequestWithoutPassphrase ==
    (scall = "open" /\ ~(password # None /\ password # "")) =>
        /\ \A p \in 1..Len(log) :
              (log[p].e = "expect" /\ log[p].s = "passphrase") =>
                  /\ log[p].n \in {1, 2}
                  /\ SessionRaised("open", "ValueError")
                  /\ ~connected
                  /\ \A q \in (p + 1)..Len(log) : log[q] = ForceClose
        /\ \A p \in 1..Len(log) : log[p] # Sendline(password)

\* C14 witness: KEYPWORD is empty, the host key was accepted and the extra
\* round met the passphrase request.
C14_Witness ==
    /\ SessionRaised("open", "ValueError")
    /\ password = ""
    /\ Len(log) >= 4
    /\ log[Len(log) - 1] = Sendline("yes")
    /\ log[Len(log)] = Expect(2, "passphrase")

\* The names of the patterns of open().
PatternNames == {expected_patterns[n] : n \in 1..Len(expected_patterns)}

\* C15: in an attempt whose first expect() meets the host-key question,
\* open() sends "yes" once and evaluates the same patterns once more (round
\* 2); no other "yes" and no other round-2 expect() belong to that attempt.
\* When round 2 meets the question again, an end-of-stream or a timeout, the
\* process is terminated and the attempt counts as a transient failure: the
\* backoff sleep follows, or ConnectionError if it was the 4th attempt.
C15_HostKeyOneExtraRound ==
    scall = "open" =>
        /\ \A p \in 1..Len(log) :
              log[p] = Expect(1, "hostkey") =>
                  /\ p + 2 <= Len(log)
                  /\ log[p + 1] = Sendline("yes")
                  /\ log[p + 2].e = "expect"
                  /\ log[p + 2].n = 2
                  /\ log[p + 2].s \in PatternNames
                  /\ \A q \in 1..Len(log) :
                        (AttemptAt(q) = AttemptAt(p) /\ q # p + 1) =>
                            log[q] # Sendline("yes")
                  /\ \A q \in 1..Len(log) :
                        (AttemptAt(q) = AttemptAt(p) /\ q # p + 2 /\ log[q].e = "expect") =>
                            log[q].n # 2
                  /\ log[p + 2].s \in {"hostkey", "EOF", "TIMEOUT"} =>
                        /\ p + 3 <= Len(log)
                        /\ log[p + 3] = ForceClose
                        /\ IF AttemptAt(p) < 4
                           THEN p + 4 <= Len(log) /\ log[p + 4].e = "sleep"
                           ELSE SessionRaised("open", "ConnectionError")
        /\ \A p \in 1..Len(log) :
              log[p] = Sendline("yes") => (p > 1 /\ log[p - 1] = Expect(1, "hostkey"))

\* C15 witness: the first attempt met the host-key question twice; the
\* process was terminated and open() sleeps before the second attempt.
C15_Witness ==
    /\ OpenRunning
    /\ log = <<Spawn, Expect(1, "hostkey"), Sendline("yes"), Expect(2, "hostkey"),
               ForceClose, Sleep(2)>>

\* The handle can be used: self.ssh is set and not marked closed (the test of
\* lines 217 and 357).
HandleOpen == ssh = "open"

\* C16 (does not hold): whenever no call is running, the session has a handle
\* if and only if it is Connected.  self.ssh is never set back to None, so the
\* handle is taken here as "set and not marked closed"; with "not None" the
\* statement fails already after every close().
C16_HandleIffConnected ==
    spc = "idle" => (HandleOpen <=> connected)

\* C17 (does not hold): command() on a session that is not Connected (never
\* connected, or closed) raises ConnectionError and sends nothing.
C17_ExecuteNotConnectedRaises ==
    (spc = "idle" /\ scall = "command" /\ ~connected) =>
        /\ sraised = "ConnectionError"
        /\ log = <<>>

\* command() ran on a Connected session.
CommandOnConnected == spc = "idle" /\ scall = "command" /\ connected

\* What C18 says of command() on a Connected session, for a given reading of
\* "the output before the match": the command line is the one line sent, the
\* pattern awaited is the caller's, or the prompt when the argument is None,
\* and the outcome of the wait decides between return, Aborted and Timeout.
CommandContract(returned) ==
    /\ log = <<Sendline(COMMANDLINE),
               Await(IF sarg.expectedline = None THEN DEFAULT_PROMPT
                     ELSE sarg.expectedline,
                     CHOOSE i \in 0..2 : CommandOutcomes[i + 1] = sarg.outcome)>>
    /\ sarg.outcome = "match" =>
          sraised = "none" /\ sret = [t |-> "str", v |-> returned]
    /\ sarg.outcome = "EOF" =>
          sraised = "ConnectionAbortedError" /\ sret = NoReturn
    /\ sarg.outcome = "TIMEOUT" =>
          sraised = "TimeoutError" /\ sret = NoReturn

\* C18 as claimed: a match returns the output received before the match.
C18_Original ==
    CommandOnConnected => CommandContract(BeforeText(sarg.before))

\* C18 amended: command() on a Connected session sends the command once and
\* has one of three outcomes: a match returns the output received before it
\* with leading and trailing whitespace removed, an end-of-stream raises
\* ConnectionAbortedError, a timeout raises TimeoutError; the pattern is the
\* prompt when the caller gives none.
C18_CommandOutcomes ==
    CommandOnConnected => CommandContract(strip(BeforeText(sarg.before)))

\* C18 witness: the output before the prompt began with a newline, and
\* command() returned it without.
C18_Witness ==
    /\ CommandOnConnected
    /\ sarg = [expectedline |-> None, outcome |-> "match",
               before |-> "B_LEADING", local |-> "none", prompt |-> "none"]
    /\ sret = [t |-> "str", v |-> <<"o", "k">>]

\* A step that is a whole close() call.
CloseCall == spc = "idle" /\ scall' = "close"

C20_OutboundNeedsLocalFile ==
    /\ (spc = "idle" /\ scall = "copy_to" /\ sarg.local = "missing") =>
          /\ sraised = "FileNotFoundError"
          /\ sret = NoReturn
          /\ log = <<>>
    /\ (spc = "idle" /\ scall = "copy_to" /\ sarg.local = "exists") =>
          Count(log, "run") = 1
    /\ (spc = "idle" /\ scall = "copy_from") =>
          /\ Count(log, "run") = 1
          /\ sraised = "none"

\* C20 witness: an outbound transfer of a missing file raised.
C20_Witness ==
    /\ spc = "idle"
    /\ scall = "copy_to"
    /\ sarg.local = "missing"
    /\ sraised = "FileNotFoundError"
    /\ log = <<>>

\* A transfer call that got as far as running scp.
CopyInvoked ==
    spc = "idle" /\ scall \in {"copy_to", "copy_from"} /\ Count(log, "run") = 1

\* C21: a transfer that ran scp raises nothing and returns a bool: True
\* exactly when scp ended with status 0; False for another status, for the
\* timeout of 180 s and for any other exception of the invocation.
C21_TransferReturnsBool ==
    CopyInvoked =>
        /\ sraised = "none"
        /\ sret \in {[t |-> "bool", v |-> TRUE], [t |-> "bool", v |-> FALSE]}
        /\ sret.v <=> (sarg.outcome = "exit0")
        /\ log[1] = RunScp

\* C21 witness: the copy timed out and copy_from() returned False.
C21_Witness ==
    /\ CopyInvoked
    /\ scall = "copy_from"
    /\ sarg.outcome = "TIMEOUT"
    /\ sret = [t |-> "bool", v |-> FALSE]

-----------------------------------------------------------------------------
(* PowderExperiment._parse_manifests as a function of the documents: every  *)
(* sequence of one to MaxDocuments documents is parsed once, over an empty  *)
(* registry and over a registry left by an earlier parse.                   *)

MaxDocuments == 2

\* The node of DOC_A again, reported with another host.
ENTRY_0_AGAIN == NodeEntry("node-0", HostDict("n0b.example.net", "10.0.0.9"))
DOC_A_AGAIN == Document(Rspec(ENTRY_0_AGAIN))

ParserDocuments ==
    {DOC_A, DOC_B, DOC_MIXED, DOC_INVALID, DOC_NO_RSPEC, DOC_NO_NODE,
     DOC_TEXT_RSPEC, DOC_A_AGAIN}

ParserInputs == UNION {[1..n -> ParserDocuments] : n \in 1..MaxDocuments}

\* self.nodes of an earlier parse
EarlierRegistries ==
    {EmptyDict, ParseManifests(EmptyDict, <<DOC_INVALID, DOC_B>>)}

ParserInit ==
    /\ NoSession
    /\ NoCaller
    /\ pc = "fetched"
    /\ experiment_name = NoObject
    /\ status = NoObject
    /\ nodes \in EarlierRegistries
    /\ \E docs \in ParserInputs : _manifests = [t |-> "list", docs |-> docs]
    /\ poll_count = 0
    /\ call = "none"
    /\ ret = NoObject
    /\ raised = "none"
    /\ rpcs = FALSE
    /\ starts = 0
    /\ terms = 0
    /\ termRval = "none"
    /\ pauses = 0
    /\ slept = 0
    /\ refreshSaw = "none"
    /\ readyNodes = FALSE
    /\ readyEmpty = "none"
    /\ loopExit = NoObject
    /\ statusResp = NoResponse
    /\ prevStatus = NoObject
    /\ manifestResp = NoRequest
    /\ initialStatus = NoObject
    /\ startRval = "none"

\* self._parse_manifests()
ParseCall ==
    /\ pc = "fetched"
    /\ pc' = "parsed"
    /\ call' = "_parse_manifests"
    /\ LET self1 == _parse_manifests(Self)
       IN  /\ nodes' = self1.nodes
           /\ _manifests' = self1._manifests
    /\ UNCHANGED <<experiment_name, status, poll_count, ret, raised, rpcs, starts,
                   terms, termRval, pauses, slept, refreshSaw, readyNodes,
                   readyEmpty, loopExit, statusResp, prevStatus, manifestResp,
                   initialStatus, startRval>>
    /\ UNCHANGED svars
    /\ UNCHANGED ivars

ParserNext == ParseCall

ParserSpec == ParserInit /\ [][ParserNext]_vars

\* The node elements of one document, in document order: none when the rspec
\* element or its node collection is missing.
NodeElements(manifest) ==
    IF manifest.rspec.t # "dict" THEN <<>>
    ELSE IF manifest.rspec.node.t = "None" THEN <<>>
    ELSE IF manifest.rspec.node.t = "list" THEN manifest.rspec.node.items
    ELSE <<manifest.rspec.node>>

RECURSIVE AllNodeElements(_)
AllNodeElements(docs) ==
    IF docs = <<>> THEN <<>>
    ELSE NodeElements(Head(docs)) \o AllNodeElements(Tail(docs))

\* A valid entry: an element with a client identifier whose host descriptor
\* (the first host with an address, of several) has a hostname and an address.
IsValidEntry(e) ==
    /\ e.t = "dict"
    /\ Truthy(e.client_id)
    /\ SelectHost(e.host).t = "dict"
    /\ Truthy(SelectHost(e.host).name)
    /\ Truthy(SelectHost(e.host).ipv4)

NodeOf(e) == Node(e.client_id, SelectHost(e.host).ipv4, SelectHost(e.host).name)

\* Positions of the valid entries among all the node elements parsed.
ValidEntries ==
    LET all == AllNodeElements(_manifests.docs)
    IN  {i \in 1..Len(all) : IsValidEntry(all[i])}

Parsed == pc = "parsed" /\ call = "_parse_manifests"

\* C22 as stated: after a parse the registry has as many Nodes as there are
\* valid entries in the documents, and holds the Node of each of them.
C22_Original ==
    Parsed =>
        LET all == AllNodeElements(_manifests.docs)
        IN  /\ Cardinality(DOMAIN nodes) = Cardinality(ValidEntries)
            /\ \A i \in ValidEntries :
                   /\ all[i].client_id \in DOMAIN nodes
                   /\ nodes[all[i].client_id] = NodeOf(all[i])

\* C22: after a parse over one or more documents the registry holds exactly
\* one Node per client identifier of a valid entry, built from the last valid
\* entry with that identifier; invalid entries and documents without nodes
\* are skipped without aborting what follows, and what an earlier parse left
\* is gone.  With distinct identifiers that is one Node per valid entry.
C22_OneNodePerValidIdentifier ==
    Parsed =>
        LET all == AllNodeElements(_manifests.docs)
            last(id) == CHOOSE i \in ValidEntries :
                            /\ all[i].client_id = id
                            /\ \A j \in ValidEntries :
                                   all[j].client_id = id => j <= i
        IN  /\ DOMAIN nodes = {all[i].client_id : i \in ValidEntries}
            /\ \A id \in DOMAIN nodes : nodes[id] = NodeOf(all[last(id)])
            /\ (\A i, j \in ValidEntries :
                    all[i].client_id = all[j].client_id => i = j)
               => Cardinality(DOMAIN nodes) = Cardinality(ValidEntries)
            /\ _manifests.docs = <<DOC_MIXED>> => Cardinality(DOMAIN nodes) = 1
            /\ _manifests.docs = <<DOC_A, DOC_B>> => Cardinality(DOMAIN nodes) = 2

\* C22 witness: two documents name the same client identifier in valid
\* entries, and the registry holds the one Node of the second.
C22_Witness ==
    /\ Parsed
    /\ _manifests.docs = <<DOC_A, DOC_A_AGAIN>>
    /\ Cardinality(ValidEntries) = 2
    /\ DOMAIN nodes = {"node-0"}
    /\ nodes["node-0"] = NodeOf(ENTRY_0_AGAIN)

-----------------------------------------------------------------------------
(* The start-and-wait and refresh claims of the controller.                *)

\* check_status() returned after a refresh that requested the manifests.
FetchedAndParsed ==
    pc = "idle" /\ call = "check_status" /\ manifestResp # NoRequest

\* C23: after a fetch-and-parse of the manifests the registry holds no node
\* that is absent from the documents just fetched; a fetch that failed or
\* returned no documents leaves it empty.
C23_ReparseReplacesRegistry ==
    FetchedAndParsed =>
        \A id \in DOMAIN nodes :
            /\ id \in DOMAIN FetchedNodes(manifestResp)
            /\ nodes[id] = FetchedNodes(manifestResp)[id]

InStartAndWait == call = "start_and_wait"

StartAndWaitReturned == InStartAndWait /\ pc = "idle"

\* C26: within one start_and_wait() call a start request is issued at most
\* once, and exactly when the state after the initial refresh is none of
\* READY, PROVISIONING, PROVISIONED; an initial READY returns at once with no
\* start request, no terminate request, no pause and no poll.
C26_StartAtMostOnceAndOnlyIfNeeded ==
    InStartAndWait =>
        /\ starts <= 1
        /\ initialStatus \in {EXPERIMENT_READY, EXPERIMENT_PROVISIONING,
                              EXPERIMENT_PROVISIONED} => starts = 0
        /\ pc = "idle" =>
               (starts = 1 <=>
                    initialStatus \notin {EXPERIMENT_READY, EXPERIMENT_PROVISIONING,
                                          EXPERIMENT_PROVISIONED})
        /\ initialStatus = EXPERIMENT_READY =>
               /\ pc = "idle"
               /\ starts = 0
               /\ terms = 0
               /\ pauses = 0
               /\ slept = 0
               /\ poll_count = 0
               /\ loopExit = NoObject

\* C26 witness: the initial refresh gave READY and the call returned READY
\* without a start request.
C26_Witness ==
    /\ StartAndWaitReturned
    /\ initialStatus = EXPERIMENT_READY
    /\ ret = EXPERIMENT_READY
    /\ starts = 0

\* C27: when the initial refresh of start_and_wait() gives FAILED, one
\* terminate request is issued before any start request, and the start
\* request follows it whatever the terminate request returned.
C27_FailedTerminatesThenStarts ==
    (InStartAndWait /\ initialStatus = EXPERIMENT_FAILED) =>
        /\ pc = "cleanup" => terms = 0 /\ starts = 0
        /\ pc # "cleanup" => terms = 1
        /\ pc = "start" => starts = 0 /\ termRval \in RVals
        /\ pc \in {"after_start", "poll", "idle"} => starts = 1

\* C27 witness: the terminate request failed (the state is still FAILED) and
\* the start request has been issued.
C27_Witness ==
    /\ InStartAndWait
    /\ initialStatus = EXPERIMENT_FAILED
    /\ pc = "after_start"
    /\ status = EXPERIMENT_FAILED
    /\ terms = 1
    /\ starts = 1

\* C28: a start request that returns a non-success code sets the state to
\* FAILED and start_and_wait() returns FAILED with no pause, no status
\* refresh and no poll after it; after a successful one exactly one pause of
\* START_PAUSE_S and one status refresh come before the polling loop.
C28_StartResult ==
    (InStartAndWait /\ startRval # "none") =>
        IF startRval # RESPONSE_SUCCESS
        THEN /\ pc = "idle"
             /\ status = EXPERIMENT_FAILED
             /\ ret = EXPERIMENT_FAILED
             /\ pauses = 0
             /\ slept = 0
             /\ refreshSaw = "none"
             /\ loopExit = NoObject
        ELSE /\ pauses = 1
             /\ pc # "start"
             /\ pc = "after_start" =>
                    slept = START_PAUSE_S /\ refreshSaw = "none" /\ poll_count = 0
             /\ pc = "poll" =>
                    /\ slept = START_PAUSE_S + POLL_INTERVAL_S * poll_count
                    /\ poll_count = 0 => refreshSaw # "none"

\* C28 witness: the start request returned an error and the call returned
\* FAILED.
C28_Witness ==
    /\ StartAndWaitReturned
    /\ startRval = RESPONSE_ERROR
    /\ ret = EXPERIMENT_FAILED
    /\ pauses = 0

\* A status response the refresh classifies as ready: a success whose payload,
\* stripped, begins with 'Status: ready'.
ReadyResponse(sresp) ==
    /\ sresp.rval = RESPONSE_SUCCESS
    /\ startswith(strip(Output(sresp)), LIT_STATUS_READY)

\* A step that is one whole check_status() call.
CheckStatusStep == pc = "idle" /\ pc' = "idle" /\ call' = "check_status"

\* C29: a status refresh requests the manifests exactly when the response
\* is classified ready and either the state before it was not READY or the
\* registry was empty; a ready response met in state READY with a non-empty
\* registry requests nothing and leaves the registry and the cached
\* manifests as they were.
C29_ManifestsRequestedOnlyWhenNeeded ==
    [][CheckStatusStep =>
          /\ manifestResp' # NoRequest <=>
                 /\ ReadyResponse(statusResp')
                 /\ status # EXPERIMENT_READY \/ IsEmpty(nodes)
          /\ (/\ ReadyResponse(statusResp')
              /\ status = EXPERIMENT_READY
              /\ ~IsEmpty(nodes))
             => /\ manifestResp' = NoRequest
                /\ nodes' = nodes
                /\ _manifests' = _manifests
                /\ status' = EXPERIMENT_READY]_vars

\* C29 witness: check_status() met a ready response in state READY with a
\* registry, and requested no manifests.
C29_Witness ==
    /\ pc = "idle"
    /\ call = "check_status"
    /\ ReadyResponse(statusResp)
    /\ prevStatus = EXPERIMENT_READY
    /\ status = EXPERIMENT_READY
    /\ ~IsEmpty(nodes)
    /\ manifestResp = NoRequest

-----------------------------------------------------------------------------
(* The failures of open().                                                 *)

\* The classes an exception of open() is an instance of: what an except
\* clause naming one of them catches.
ExceptionClasses(error) ==
    CASE error = "ValueError" -> {"ValueError", "Exception"}
      [] error = "ConnectionRefusedError" ->
            {"ConnectionRefusedError", "ConnectionError", "OSError", "Exception"}
      [] error = "ConnectionError" -> {"ConnectionError", "OSError", "Exception"}
      [] OTHER -> {"Exception"}

\* line 126, line 161: a passphrase is asked for and none is configured
ConfigurationError == "ValueError"

\* line 195: the attempts are used up
ExhaustedError == "ConnectionError"

OpenRaised == spc = "idle" /\ scall = "open" /\ sraised # "none"

\* The last expect() of the call.
LastExpect ==
    LET ps == {p \in 1..Len(log) : log[p].e = "expect"}
    IN  log[CHOOSE p \in ps : \A q \in ps : q <= p]

\* The kind of a failure of open(), from what the server said last: a
\* passphrase request left unanswered is a Configuration failure, a password
\* request or a denial an Authentication failure, and anything else the
\* exhaustion of the attempts.
FailureKind ==
    IF \A p \in 1..Len(log) : log[p].e # "expect" THEN "Connection"
    ELSE IF LastExpect.s = "passphrase" THEN "Configuration"
    ELSE IF LastExpect.s \in {"password", "denied"} THEN "Authentication"
    ELSE "Connection"

\* C25 (does not hold): an Authentication failure of open() is raised as an
\* exception of another class than a Configuration failure, and no handler
\* for the exception of exhausted retries catches it.
C25_FailureKindsDistinct ==
    (OpenRaised /\ FailureKind = "Authentication") =>
        /\ sraised # ConfigurationError
        /\ ExhaustedError \notin ExceptionClasses(sraised)

\* C30 (does not hold): when open() raises, the process it spawned has been
\* force-terminated: the handle is not left open.
C30_RaisedConnectLeavesNoProcess ==
    OpenRaised => NotOpen(ssh)

-----------------------------------------------------------------------------
(* init_node.py: check_hostname and initialize_node, each one session       *)
(* constructed, opened, used and closed inside try / except / finally.      *)
(* Both except clauses return EXIT_SSH_ERROR, so every exception raised in  *)
(* the try block ends in that return value.                                 *)

EXIT_SUCCESS == 0
EXIT_SSH_ERROR == 1
EXIT_CMD_ERROR == 2

Functions == {"check_hostname", "initialize_node"}

\* ssh_conn.ssh.exitstatus after a command: pexpect sets it when it finds the
\* ssh process ended, and leaves it None while the process runs.
ExitStatuses == {"None", "0", "255"}

\* line 61: splitlines()[-1] of an output that is empty once stripped raises
\* IndexError
HostnameLineMissing(output) == strip(output) = <<>>

\* "if ssh_conn:" of the finally block, that never closes
CloseInFinally_Never(conn) == FALSE

\* lines 75 and 134: "if ssh_conn:"
CloseInFinally(conn) == conn

InitNodeInit ==
    /\ NoController
    /\ NoSession
    /\ fn \in Functions
    /\ ipc = "entry"
    /\ ssh_conn = FALSE
    /\ exit_code = NoObject
    /\ closes = 0
    /\ exitstatus = "unread"

\* lines 52 and 91: pssh.SSHConnection(ip_address=..., username=...)
Construct ==
    \E env \in Environments :
        LET obj == SSHConnection__init__(env)
        IN  /\ ipc = "entry"
            /\ scall' = "__init__"
            /\ password' = obj.password
            /\ sraised' = obj.raised
            /\ spc' = IF obj.raised = "none" THEN "idle" ELSE "ctor_failed"
            /\ ssh_conn' = (obj.raised = "none")
            /\ ipc' = IF obj.raised = "none" THEN "constructed" ELSE "finally"
            /\ exit_code' = IF obj.raised = "none" THEN NoObject ELSE EXIT_SSH_ERROR
            /\ UNCHANGED <<ssh, retry_count, sarg, sret, connected, prevConnected, log>>
            /\ UNCHANGED <<fn, closes, exitstatus>>
            /\ UNCHANGED vars

\* lines 54 and 92: ssh_conn.open() begins
CallOpen ==
    /\ ipc = "constructed"
    /\ OpenBeginStep
    /\ ipc' = "opening"
    /\ UNCHANGED <<fn, ssh_conn, exit_code, closes, exitstatus>>

\* an iteration of the retry loop of that open(); an exception it raises is
\* caught at lines 66-73 and 125-132
OpenLoop ==
    /\ ipc = "opening"
    /\ OpenAttemptStep
    /\ ipc' = IF spc' = "open" THEN "opening"
              ELSE IF sraised' = "none" THEN "opened" ELSE "finally"
    /\ exit_code' = IF spc' = "idle" /\ sraised' # "none"
                    THEN EXIT_SSH_ERROR ELSE exit_code
    /\ UNCHANGED <<fn, ssh_conn, closes, exitstatus>>

\* lines 57-64 of check_hostname: the hostname command and its last line
HostnameCommand ==
    /\ fn = "check_hostname"
    /\ ipc = "opened"
    /\ CommandStep
    /\ sarg'.expectedline = None
    /\ exit_code' = IF sraised' # "none" THEN EXIT_SSH_ERROR
                    ELSE IF HostnameLineMissing(sret'.v) THEN EXIT_SSH_ERROR
                    ELSE EXIT_SUCCESS
    /\ ipc' = "finally"
    /\ UNCHANGED <<fn, ssh_conn, closes, exitstatus>>

\* A command of initialize_node and the test of the exit status after it.
CommandAndExitStatus(then, code) ==
    \E es \in ExitStatuses :
        /\ CommandStep
        /\ sarg'.expectedline = None
        /\ IF sraised' # "none"
           THEN ipc' = "finally" /\ exit_code' = EXIT_SSH_ERROR
           ELSE IF es # "0"
           THEN ipc' = "finally" /\ exit_code' = EXIT_CMD_ERROR
           ELSE ipc' = then /\ exit_code' = code
        /\ exitstatus' = IF sraised' # "none" THEN exitstatus ELSE es
        /\ UNCHANGED <<fn, ssh_conn, closes>>

\* lines 99-105 of initialize_node: test -f of the startup script
TestStartupScript ==
    /\ fn = "initialize_node"
    /\ ipc = "opened"
    /\ CommandAndExitStatus("checked", NoObject)

\* lines 111-123 of initialize_node: the startup script is run
RunStartupScript ==
    /\ fn = "initialize_node"
    /\ ipc = "checked"
    /\ CommandAndExitStatus("finally", EXIT_SUCCESS)

\* lines 74-77 and 133-136: the finally block, and the return
Finally ==
    /\ ipc = "finally"
    /\ ipc' = "returned"
    /\ IF CloseInFinally(ssh_conn)
       THEN CloseStep /\ closes' = closes + 1
       ELSE UNCHANGED svars /\ UNCHANGED vars /\ closes' = closes
    /\ UNCHANGED <<fn, ssh_conn, exit_code, exitstatus>>

InitNodeNext ==
    \/ Construct
    \/ CallOpen
    \/ OpenLoop
    \/ HostnameCommand
    \/ TestStartupScript
    \/ RunStartupScript
    \/ Finally

InitNodeSpec == InitNodeInit /\ [][InitNodeNext]_<<svars, ivars>>

\* C24: in check_hostname and initialize_node, an execution that constructed
\* a session object has called close() on it exactly once when the function
\* returns, as its last call on the session, whether open() or a command
\* succeeded, an error code was returned early, or an exception was raised;
\* nothing is closed before the finally block, or when no object was made.
C24_SessionClosedBeforeReturn ==
    fn \in Functions =>
        /\ ipc = "returned" =>
              /\ exit_code \in {EXIT_SUCCESS, EXIT_SSH_ERROR, EXIT_CMD_ERROR}
              /\ ssh_conn => closes = 1 /\ scall = "close" /\ NotOpen(ssh)
              /\ ~ssh_conn => closes = 0 /\ scall = "__init__"
        /\ ipc # "returned" => closes = 0

\* C24 witness: initialize_node made a session object, left the try block
\* with the SSH error code, and closed the session before it returned.
C24_Witness ==
    /\ fn = "initialize_node"
    /\ ipc = "returned"
    /\ ssh_conn
    /\ exit_code = EXIT_SSH_ERROR
    /\ ssh = "closed"
    /\ closes = 1

-----------------------------------------------------------------------------
(* What a refresh leaves when the manifests cannot be had.                  *)

\* The manifests request of the refresh failed: a result code other than
\* success, or a payload that cannot be decoded.
ManifestsRequestFailed ==
    /\ manifestResp # NoRequest
    /\ \/ manifestResp.rval # RESPONSE_SUCCESS
       \/ manifestResp.output.t \in {"badjson", "badxml"}

\* C31 (does not hold): a refresh that classifies the response as ready and
\* whose manifests request fails leaves the state FAILED, also when the
\* registry holds nodes of an earlier fetch.
C31_FailedFetchGivesFailed ==
    (pc = "idle" /\ call = "check_status" /\ ManifestsRequestFailed) =>
        status = EXPERIMENT_FAILED /\ ret = EXPERIMENT_FAILED

\* C32: after every status refresh, and at every return of start_and_wait(),
\* state READY comes with a registry that is not empty, whatever the
\* responses were; the value returned is READY only with such a registry.
C32_ReadyHasNodes ==
    /\ status = EXPERIMENT_READY => ~IsEmpty(nodes)
    /\ (pc = "idle" /\ call \in {"check_status", "start_and_wait"}
            /\ ret = EXPERIMENT_READY)
       => status = EXPERIMENT_READY /\ ~IsEmpty(nodes)

\* C32 witness: a refresh of the polling loop gave READY with a registry.
C32_Witness ==
    /\ pc = "poll"
    /\ poll_count > 0
    /\ refreshSaw = "ready_nodes"
    /\ status = EXPERIMENT_READY
    /\ ~IsEmpty(nodes)

\* The polling loop ended with its budget used up: the state it left is
\* still one the loop goes on for.
BudgetExhausted ==
    loopExit \in {EXPERIMENT_PROVISIONING, EXPERIMENT_PROVISIONED,
                  EXPERIMENT_NOT_STARTED, EXPERIMENT_UNKNOWN}

\* C34: within one start_and_wait() call at most one terminate request is
\* issued, and only when the initial refresh gave FAILED; when the polling
\* budget is used up the state is set to FAILED and returned, and no
\* terminate request is issued for the experiment.
C34_TerminateOnlyForInitialFailed ==
    InStartAndWait =>
        /\ terms <= 1
        /\ terms = 1 => initialStatus = EXPERIMENT_FAILED
        /\ (pc = "idle" /\ BudgetExhausted) =>
               /\ status = EXPERIMENT_FAILED
               /\ ret = EXPERIMENT_FAILED
               /\ terms = IF initialStatus = EXPERIMENT_FAILED THEN 1 ELSE 0

\* C34 witness: the experiment did not exist, was started, stayed
\* provisioned until the budget was used up, and no terminate request was made.
C34_Witness ==
    /\ StartAndWaitReturned
    /\ initialStatus = EXPERIMENT_NULL
    /\ starts = 1
    /\ loopExit = EXPERIMENT_PROVISIONED
    /\ ret = EXPERIMENT_FAILED
    /\ terms = 0

-----------------------------------------------------------------------------
(* What command() leaves of the session.                                   *)

\* A step that is one whole command() call.
CommandCall == spc = "idle" /\ spc' = "idle" /\ scall' = "command"

\* C35: command() never changes whether the session is Connected: it leaves
\* the process handle as it was, not marked closed, when it returns and when
\* it raises TimeoutError or ConnectionAbortedError, so that a command() after
\* it sends its command line and does not raise the not-open ConnectionError.
C35_CommandKeepsSession ==
    [][CommandCall =>
          /\ ssh' = ssh
          /\ connected' = connected
          /\ connected =>
                /\ ssh' = "open"
                /\ log' # <<>>
                /\ log'[1] = Sendline(COMMANDLINE)
                /\ sraised' \in {"none", "TimeoutError", "ConnectionAbortedError"}]_svars

\* C35 witness: a command() on a Connected session met the end of the stream,
\* raised ConnectionAbortedError, and the handle is still open.
C35_Witness ==
    /\ spc = "idle"
    /\ scall = "command"
    /\ prevConnected
    /\ connected
    /\ sraised = "ConnectionAbortedError"
    /\ ssh = "open"

-----------------------------------------------------------------------------
(* Where the key passphrase goes.                                          *)

\* Event p of the log writes the passphrase to the remote channel.
PassphraseSent(p) ==
    /\ PasswordSet(password)
    /\ log[p] = Sendline(password)

\* What event p answers is a request for the passphrase of the key: the
\* expect() before it in open(), the prompt scp showed in a transfer.
AnswersPassphraseRequest(p) ==
    IF scall \in {"copy_to", "copy_from"}
    THEN sarg.prompt = "passphrase"
    ELSE /\ p > 1
         /\ log[p - 1].e = "expect"
         /\ log[p - 1].s = "passphrase"

\* C33 (does not hold): the key passphrase is written to a remote channel
\* only in answer to a request for the passphrase of the key, in open() and
\* in the transfers.
C33_PassphraseOnlyToPassphraseRequest ==
    \A p \in 1..Len(log) : PassphraseSent(p) => AnswersPassphraseRequest(p)

-----------------------------------------------------------------------------
(* The exit code of initialize_node.                                       *)

InitializeNodeReturned == fn = "initialize_node" /\ ipc = "returned"

\* C36 (does not hold): initialize_node returns EXIT_SUCCESS when open() and
\* its commands succeeded with the prompt matched and the ssh process still
\* running, and EXIT_CMD_ERROR only after a non-zero exit status.
C36_ExitCodeOfInitializeNode ==
    InitializeNodeReturned =>
        /\ exitstatus = "None" => exit_code = EXIT_SUCCESS
        /\ exit_code = EXIT_CMD_ERROR => exitstatus \notin {"None", "0", "unread"}

====
